---- MODULE Spec2Model ----
(***************************************************************************)
(* A model of pepterm: the sample framebuffer and its glyph packer         *)
(* (src/src/screen.rs), the camera that projects, clips, culls and         *)
(* composites line segments into it (src/src/three.rs), and the viewer's   *)
(* frame loop (src/src/main.rs).                                           *)
(*                                                                         *)
(* Numbers.  Sample coordinates are i32 and are modelled as integers (the  *)
(* coordinates explored are far from the i32 limits).  The geometry (world *)
(* and camera-space points, the projection, the frustum tests) is modelled *)
(* in exact rationals: a camera-space point carries its three numerators   *)
(* and a common positive denominator d, tan(fov/2) is the fraction         *)
(* tan_num/tan_den, and f32::round is rounding half away from zero.        *)
(* Angles are whole quarter turns, for which sine and cosine are exact.    *)
(* The colour arithmetic ((1.0 - t) * a + t * b) as u8 is modelled in f32  *)
(* itself, every operation rounded to a 24-bit mantissa (nearest, ties to  *)
(* even) and the result truncated by `as u8`.                              *)
(***************************************************************************)
EXTENDS Integers, Sequences, FiniteSets, TLC

VARIABLES screen, camera, last, main, terminal

vars == <<screen, camera, last, main, terminal>>

(***************************************************************************)
(* Bounds of the exploration.                                              *)
(***************************************************************************)
\* terminal sizes tried: 1..MaxTermCols columns, 1..MaxTermRows rows
MaxTermCols == 2
MaxTermRows == 2
\* sample coordinates tried reach this far outside the framebuffer
Margin == 1

(***************************************************************************)
(* screen.rs: colours, points, cells.                                      *)
(***************************************************************************)
Rgb(r, g, b) == [r |-> r, g |-> g, b |-> b]

white == Rgb(255, 255, 255)

\* screen::Point
Point(x, y) == [x |-> x, y |-> y]

\* ColorCell::new
ColorCell_new == [on |-> FALSE, color |-> white]

\* BrailePixel::WIDTH, BrailePixel::HEIGHT
BrailePixel_WIDTH == 2
BrailePixel_HEIGHT == 4

\* u16::saturating_sub
saturating_sub(a, b) == IF a >= b THEN a - b ELSE 0

\* vec![vec![ColorCell::new(); width]; height]
fresh_content(width, height) ==
    [y \in 0..(height - 1) |-> [x \in 0..(width - 1) |-> ColorCell_new]]

\* Screen::new, for a terminal that reports (terminal_width, terminal_height)
Screen_new(terminal_width, terminal_height) ==
    LET width == (terminal_width * BrailePixel_WIDTH) % 65536
        height == (saturating_sub(terminal_height, 1) * BrailePixel_HEIGHT) % 65536
    IN [width |-> width, height |-> height, content |-> fresh_content(width, height)]

\* one of the two products of Screen::new leaves the u16 range
Screen_new_overflows(terminal_width, terminal_height) ==
    \/ terminal_width * BrailePixel_WIDTH > 65535
    \/ saturating_sub(terminal_height, 1) * BrailePixel_HEIGHT > 65535

\* the bounds test of Screen::write_color
\* the test with the lower bounds exclusive (the off-by-one the source's comment names)
in_bounds_exclusive_low(s, point) ==
    /\ point.x > 0 /\ point.x < s.width
    /\ point.y > 0 /\ point.y < s.height

in_bounds(s, point) ==
    LET x_in_bounds == point.x >= 0 /\ point.x < s.width
        y_in_bounds == point.y >= 0 /\ point.y < s.height
    IN x_in_bounds /\ y_in_bounds

\* Screen::write_color
write_color(s, val, point, color) ==
    IF in_bounds(s, point)
    THEN [s EXCEPT !.content[point.y][point.x] = [on |-> val, color |-> color]]
    ELSE s

\* Screen::clear
\* a clear that whitens every cell but leaves it on or off as it was
clear_colors_only(s) ==
    [s EXCEPT !.content =
        [y \in DOMAIN s.content |->
            [x \in DOMAIN s.content[y] |-> [on |-> s.content[y][x].on, color |-> white]]]]

clear(s) ==
    [s EXCEPT !.content =
        [y \in DOMAIN s.content |->
            [x \in DOMAIN s.content[y] |-> [on |-> FALSE, color |-> white]]]]

\* Screen::resize
\* resize that reallocates only when both dimensions differ
resize_when_both_differ(s, width, height) ==
    IF width # s.width /\ height # s.height
    THEN [width |-> width, height |-> height, content |-> fresh_content(width, height)]
    ELSE s

resize(s, width, height) ==
    IF width # s.width \/ height # s.height
    THEN [width |-> width, height |-> height, content |-> fresh_content(width, height)]
    ELSE s

abs(n) == IF n < 0 THEN -n ELSE n

max(a, b) == IF a >= b THEN a ELSE b

min(a, b) == IF a <= b THEN a ELSE b

\* an f32 that is zero or positive: the value m * 2^e, with m = 0 or 2^23 <= m < 2^24
F32(m, e) == [m |-> m, e |-> e]

f32_zero == F32(0, 0)

f32_one == F32(2^23, -23)

\* the number of bits of n, for 0 <= n < 2^31, found by halving the range
bit_length_4(n) ==
    IF n < 4 THEN (IF n < 2 THEN n ELSE 2) ELSE (IF n < 8 THEN 3 ELSE 4)

bit_length_8(n) ==
    (IF n < 16 THEN 0 ELSE 4) + bit_length_4(IF n < 16 THEN n ELSE n \div 16)

bit_length_16(n) ==
    (IF n < 256 THEN 0 ELSE 8) + bit_length_8(IF n < 256 THEN n ELSE n \div 256)

bit_length(n) ==
    (IF n < 65536 THEN 0 ELSE 16) + bit_length_16(IF n < 65536 THEN n ELSE n \div 65536)

\* the f32 nearest to n * 2^e, ties to the even mantissa; `sticky` says that the exact
\* value lies above n * 2^e by less than 2^e (n then has 25 bits or more)
\* s is the number of bits n has beyond the 24 of a mantissa
f32_round_bits(n, e, sticky, s) ==
    LET q == n \div 2^s
        r == n % 2^s
        half == 2^(s - 1)
        up == r > half \/ (r = half /\ (sticky \/ q % 2 = 1))
        rounded == IF up THEN q + 1 ELSE q
    IN IF n = 0 THEN f32_zero
       ELSE IF s <= 0 THEN F32(n * 2^(-s), e + s)
       ELSE IF rounded = 2^24 THEN F32(2^23, e + s + 1)
       ELSE F32(rounded, e + s)

f32_round(n, e, sticky) == f32_round_bits(n, e, sticky, bit_length(n) - 24)

\* n as f32 / d as f32, for whole numbers 0 <= n <= d <= 32
f32_div(n, d) ==
    LET k == 30 - bit_length(n)
    IN IF n = 0 THEN f32_zero
       ELSE f32_round((n * 2^k) \div d, -k, (n * 2^k) % d # 0)

\* 1.0 - t, for an f32 t with 2^-5 <= t <= 1 or t = 0
f32_one_minus(t) ==
    IF t.m = 0 THEN f32_one ELSE f32_round(2^(-t.e) - t.m, t.e, FALSE)

\* t * c as f32, for a channel c in 0..255; the 32-bit product is formed in two halves
f32_mul_u8(t, c) ==
    LET low == (t.m % 4096) * c
        high == (t.m \div 4096) * c + low \div 4096
        rest == low % 4096
        wide == high >= 2^18
    IN IF t.m = 0 \/ c = 0 THEN f32_zero
       ELSE f32_round(IF wide THEN high * 1024 + rest \div 4 ELSE high * 4096 + rest,
                      IF wide THEN t.e + 2 ELSE t.e,
                      wide /\ rest % 4 # 0)

\* a + b: the smaller term is aligned to the larger with three guard bits, the bits
\* shifted out being remembered as sticky
f32_add(a, b) ==
    LET x == IF a.e >= b.e THEN a ELSE b
        y == IF a.e >= b.e THEN b ELSE a
        d == x.e - y.e
        aligned == IF d >= 27 THEN 0 ELSE (y.m * 8) \div 2^d
        sticky == IF d >= 27 THEN TRUE ELSE (y.m * 8) % 2^d # 0
    IN IF a.m = 0 THEN b
       ELSE IF b.m = 0 THEN a
       ELSE f32_round(x.m * 8 + aligned, x.e - 3, sticky)

\* v as u8: truncated toward zero and saturated at 255
f32_as_u8(v) ==
    IF v.m = 0 THEN 0
    ELSE IF v.e >= 0 THEN 255
    ELSE IF -v.e > 30 THEN 0
    ELSE min(v.m \div 2^(-v.e), 255)

\* ((1.0 - t) * a as f32 + t * b as f32) as u8
blend_u8(t, a, b) ==
    f32_as_u8(f32_add(f32_mul_u8(f32_one_minus(t), a), f32_mul_u8(t, b)))

\* Rgb::new of the three channels blended with the f32 t
blend_rgb(t, from, to) ==
    [r |-> blend_u8(t, from.r, to.r),
     g |-> blend_u8(t, from.g, to.g),
     b |-> blend_u8(t, from.b, to.b)]

\* the colour a fraction t = fl(t_num / t_den) of the way from `from` to `to`, as
\* Screen::line_color and the near-plane clip compute it, channel by channel
blend_color(t_num, t_den, from, to) == blend_rgb(f32_div(t_num, t_den), from, to)

\* the colour of step `step` of a line of `total_steps`, with t = step / total_steps
lerp_color(start_color, end_color, step, total_steps) ==
    blend_color(step, total_steps, start_color, end_color)

\* the range of an i32, a coordinate of screen::Point and every value of the line loop
i32_MAX == 2147483647

i32_MIN == -i32_MAX - 1

\* a + b leaves the i32 range: a debug build panics there, a release build wraps
add_overflows(a, b) == (b > 0 /\ a > i32_MAX - b) \/ (b < 0 /\ a < i32_MIN - b)

\* a + b modulo 2^32, formed without leaving the i32 range on the way
wrapping_add(a, b) ==
    IF b > 0 /\ a > i32_MAX - b THEN (a + i32_MIN) + (b + i32_MIN)
    ELSE IF b < 0 /\ a < i32_MIN - b THEN ((a + i32_MAX) + 1) + ((b + i32_MAX) + 1)
    ELSE a + b

\* a - b leaves the i32 range
sub_overflows(a, b) == (b < 0 /\ a > i32_MAX + b) \/ (b > 0 /\ a < i32_MIN + b)

\* a - b modulo 2^32
wrapping_sub(a, b) ==
    IF b < 0 /\ a > i32_MAX + b THEN (a + i32_MIN) - (b - i32_MIN)
    ELSE IF b > 0 /\ a < i32_MIN + b THEN (a - i32_MIN) - (b + i32_MIN)
    ELSE a - b

\* -a modulo 2^32: only i32::MIN has no negation
wrapping_neg(a) == IF a = i32_MIN THEN i32_MIN ELSE -a

\* i32::abs modulo 2^32
wrapping_abs(a) == IF a < 0 THEN wrapping_neg(a) ELSE a

\* the values Screen::line_color and Screen::line_color_clipped compute before the loop
line_setup(start, end, start_color, end_color) ==
    LET delta_x == wrapping_abs(wrapping_sub(end.x, start.x))
        delta_y == wrapping_neg(wrapping_abs(wrapping_sub(end.y, start.y)))
    IN [end |-> end,
        delta_x |-> delta_x,
        step_x |-> IF start.x < end.x THEN 1 ELSE -1,
        delta_y |-> delta_y,
        step_y |-> IF start.y < end.y THEN 1 ELSE -1,
        total_steps |-> max(wrapping_add(wrapping_abs(delta_x),
                                         wrapping_abs(wrapping_neg(delta_y))), 1),
        start_color |-> start_color,
        end_color |-> end_color]

\* the loop variables before the first iteration
line_start(start, ln) ==
    [x |-> start.x, y |-> start.y, err |-> wrapping_add(ln.delta_x, ln.delta_y), step |-> 0]

\* an operation before the loop leaves the i32 range
line_setup_overflows(start, end) ==
    LET diff_x == wrapping_sub(end.x, start.x)
        diff_y == wrapping_sub(end.y, start.y)
        delta_x == wrapping_abs(diff_x)
        delta_y == wrapping_neg(wrapping_abs(diff_y))
    IN \/ sub_overflows(end.x, start.x) \/ diff_x = i32_MIN
       \/ sub_overflows(end.y, start.y) \/ diff_y = i32_MIN
       \/ add_overflows(delta_x, delta_y)
       \/ delta_x = i32_MIN \/ delta_y = i32_MIN
       \/ add_overflows(wrapping_abs(delta_x), wrapping_abs(wrapping_neg(delta_y)))

\* the end of one iteration: the error update and the step
\* an update that moves along one axis only in each iteration, x first
line_advance_one_axis(ln, it) ==
    LET curr_err == it.err
        twice == wrapping_add(curr_err, curr_err)
        move_x == twice >= ln.delta_y
        move_y == ~move_x /\ twice <= ln.delta_x
        err_x == IF move_x THEN wrapping_add(it.err, ln.delta_y) ELSE it.err
    IN [x |-> IF move_x THEN wrapping_add(it.x, ln.step_x) ELSE it.x,
        y |-> IF move_y THEN wrapping_add(it.y, ln.step_y) ELSE it.y,
        err |-> IF move_y THEN wrapping_add(err_x, ln.delta_x) ELSE err_x,
        step |-> it.step + 1]

line_advance(ln, it) ==
    LET curr_err == it.err
        twice == wrapping_add(curr_err, curr_err)
        move_x == twice >= ln.delta_y
        move_y == twice <= ln.delta_x
        err_x == IF move_x THEN wrapping_add(it.err, ln.delta_y) ELSE it.err
    IN [x |-> IF move_x THEN wrapping_add(it.x, ln.step_x) ELSE it.x,
        y |-> IF move_y THEN wrapping_add(it.y, ln.step_y) ELSE it.y,
        err |-> IF move_y THEN wrapping_add(err_x, ln.delta_x) ELSE err_x,
        step |-> it.step + 1]

\* an operation of the error update leaves the i32 range
line_advance_overflows(ln, it) ==
    LET curr_err == it.err
        twice == wrapping_add(curr_err, curr_err)
        move_x == twice >= ln.delta_y
        move_y == twice <= ln.delta_x
        err_x == IF move_x THEN wrapping_add(it.err, ln.delta_y) ELSE it.err
    IN \/ add_overflows(curr_err, curr_err)
       \/ move_x /\ (add_overflows(it.err, ln.delta_y) \/ add_overflows(it.x, ln.step_x))
       \/ move_y /\ (add_overflows(err_x, ln.delta_x) \/ add_overflows(it.y, ln.step_y))

\* the loop of Screen::line_color
RECURSIVE line_color_loop_stop_outside(_, _, _)
line_color_loop_stop_outside(s, ln, it) ==
    \* a loop that gives up at the first sample outside the framebuffer
    LET color == lerp_color(ln.start_color, ln.end_color, it.step, ln.total_steps)
        written == write_color(s, TRUE, Point(it.x, it.y), color)
    IN IF (it.x = ln.end.x /\ it.y = ln.end.y) \/ ~in_bounds(s, Point(it.x, it.y))
       THEN written
       ELSE line_color_loop_stop_outside(written, ln, line_advance(ln, it))

RECURSIVE line_color_loop(_, _, _)
line_color_loop(s, ln, it) ==
    LET color == lerp_color(ln.start_color, ln.end_color, it.step, ln.total_steps)
        written == write_color(s, TRUE, Point(it.x, it.y), color)
    IN IF it.x = ln.end.x /\ it.y = ln.end.y
       THEN written
       ELSE line_color_loop(written, ln, line_advance(ln, it))

\* Screen::line_color
line_color(s, start, end, start_color, end_color) ==
    LET ln == line_setup(start, end, start_color, end_color)
    IN line_color_loop(s, ln, line_start(start, ln))

\* a clip rectangle, x_min <= x < x_max and y_min <= y < y_max
Clip(x_min, x_max, y_min, y_max) ==
    [x_min |-> x_min, x_max |-> x_max, y_min |-> y_min, y_max |-> y_max]

\* the clip test of Screen::line_color_clipped
\* the test with the lower bounds exclusive
in_clip_exclusive_low(x, y, clip) ==
    x > clip.x_min /\ x < clip.x_max /\ y > clip.y_min /\ y < clip.y_max

\* the test with the upper bounds inclusive
in_clip_inclusive_high(x, y, clip) ==
    x >= clip.x_min /\ x <= clip.x_max /\ y >= clip.y_min /\ y <= clip.y_max

in_clip(x, y, clip) ==
    x >= clip.x_min /\ x < clip.x_max /\ y >= clip.y_min /\ y < clip.y_max

\* the loop of Screen::line_color_clipped
RECURSIVE line_color_clipped_loop(_, _, _, _)
line_color_clipped_loop(s, ln, it, clip) ==
    LET color == lerp_color(ln.start_color, ln.end_color, it.step, ln.total_steps)
        written == IF in_clip(it.x, it.y, clip)
                   THEN write_color(s, TRUE, Point(it.x, it.y), color)
                   ELSE s
    IN IF it.x = ln.end.x /\ it.y = ln.end.y
       THEN written
       ELSE line_color_clipped_loop(written, ln, line_advance(ln, it), clip)

\* Screen::line_color_clipped
line_color_clipped(s, start, end, start_color, end_color, clip) ==
    LET ln == line_setup(start, end, start_color, end_color)
    IN line_color_clipped_loop(s, ln, line_start(start, ln), clip)

(***************************************************************************)
(* screen.rs: the glyph shapes and the frame payload.  A pixel is the      *)
(* sub-grid of one terminal cell, pixel[subpixel_y][subpixel_x]; a char is *)
(* its Unicode scalar value; the payload is the byte buffer handed to      *)
(* write_all.                                                              *)
(***************************************************************************)
PixelTypes == {"BlockPixel", "BrailePixel"}

BlockPixel_WIDTH == 2
BlockPixel_HEIGHT == 2

\* <T as Dim>::WIDTH and <T as Dim>::HEIGHT
Pixel_WIDTH(T) == IF T = "BlockPixel" THEN BlockPixel_WIDTH ELSE BrailePixel_WIDTH

Pixel_HEIGHT(T) == IF T = "BlockPixel" THEN BlockPixel_HEIGHT ELSE BrailePixel_HEIGHT

\* Pixel::new: every sample off
Pixel_new(T) == [y \in 0..(Pixel_HEIGHT(T) - 1) |-> [x \in 0..(Pixel_WIDTH(T) - 1) |-> FALSE]]

\* every pattern of the shape T
Pixels(T) == [0..(Pixel_HEIGHT(T) - 1) -> [0..(Pixel_WIDTH(T) - 1) -> BOOLEAN]]

\* the arms of the match of BlockPixel::to_char, in the order of the source
BlockPixel_arms ==
    <<[pattern |-> <<FALSE, FALSE, FALSE, FALSE>>, char |-> 32],
      [pattern |-> <<TRUE, FALSE, FALSE, FALSE>>, char |-> 9624],
      [pattern |-> <<FALSE, TRUE, FALSE, FALSE>>, char |-> 9629],
      [pattern |-> <<TRUE, TRUE, FALSE, FALSE>>, char |-> 9600],
      [pattern |-> <<FALSE, FALSE, TRUE, FALSE>>, char |-> 9622],
      [pattern |-> <<TRUE, FALSE, TRUE, FALSE>>, char |-> 9612],
      [pattern |-> <<FALSE, TRUE, TRUE, FALSE>>, char |-> 9630],
      [pattern |-> <<TRUE, TRUE, TRUE, FALSE>>, char |-> 9627],
      [pattern |-> <<FALSE, FALSE, FALSE, TRUE>>, char |-> 9623],
      [pattern |-> <<TRUE, FALSE, FALSE, TRUE>>, char |-> 9626],
      [pattern |-> <<FALSE, TRUE, FALSE, TRUE>>, char |-> 9616],
      [pattern |-> <<TRUE, TRUE, FALSE, TRUE>>, char |-> 9628],
      [pattern |-> <<FALSE, FALSE, TRUE, TRUE>>, char |-> 9604],
      [pattern |-> <<TRUE, FALSE, TRUE, TRUE>>, char |-> 9625],
      [pattern |-> <<FALSE, TRUE, TRUE, TRUE>>, char |-> 9631],
      [pattern |-> <<TRUE, TRUE, TRUE, TRUE>>, char |-> 9608]>>

\* the first arm of a match that fits the value; "unmatched" when none does
RECURSIVE match_arm(_, _, _)
match_arm(arms, value, i) ==
    IF i > Len(arms) THEN "unmatched"
    ELSE IF arms[i].pattern = value THEN arms[i].char
    ELSE match_arm(arms, value, i + 1)

\* BlockPixel::to_char
BlockPixel_to_char(pixel) ==
    match_arm(BlockPixel_arms,
              <<pixel[0][0], pixel[0][1], pixel[1][0], pixel[1][1]>>, 1)

\* a | b on u32
RECURSIVE bit_or(_, _)
bit_or(a, b) ==
    IF a = 0 THEN b
    ELSE IF b = 0 THEN a
    ELSE max(a % 2, b % 2) + 2 * bit_or(a \div 2, b \div 2)

\* `if self[y][x] { unicode |= 1 << shift }`
or_if(unicode, on, shift) == IF on THEN bit_or(unicode, 2^shift) ELSE unicode

\* char::from_u32: every u32 but the surrogates and the values beyond U+10FFFF
char_from_u32(unicode) ==
    IF unicode <= 1114111 /\ (unicode < 55296 \/ unicode > 57343)
    THEN unicode
    ELSE "None"

\* the dot that goes with the second column of the third row, taken for that of the
\* fourth row
BrailePixel_to_char_dot6_as_dot8(pixel) ==
    char_from_u32(
        bit_or(or_if(or_if(or_if(or_if(or_if(or_if(or_if(or_if(0,
            pixel[0][0], 0), pixel[1][0], 1), pixel[2][0], 2),
            pixel[0][1], 3), pixel[1][1], 4), pixel[2][1], 7),
            pixel[3][0], 6), pixel[3][1], 7),
            40 * 2^8))

\* BrailePixel::to_char
BrailePixel_to_char(pixel) ==
    char_from_u32(
        bit_or(or_if(or_if(or_if(or_if(or_if(or_if(or_if(or_if(0,
            pixel[0][0], 0), pixel[1][0], 1), pixel[2][0], 2),
            pixel[0][1], 3), pixel[1][1], 4), pixel[2][1], 5),
            pixel[3][0], 6), pixel[3][1], 7),
            40 * 2^8))

\* Pixel::to_char
to_char(T, pixel) ==
    IF T = "BlockPixel" THEN BlockPixel_to_char(pixel) ELSE BrailePixel_to_char(pixel)

\* Rgb::black
black == Rgb(0, 0, 0)

\* u16::div_ceil
div_ceil(a, b) == (a + b - 1) \div b

\* the samples of the pixel at column real_x of the glyph row starting at row_idx that
\* lie in the framebuffer
pixel_samples(s, T, row_idx, real_x) ==
    {p \in (0..(Pixel_WIDTH(T) - 1)) \X (0..(Pixel_HEIGHT(T) - 1)) :
        /\ row_idx + p[2] < s.height
        /\ real_x * Pixel_WIDTH(T) + p[1] < s.width}

\* real_row[real_x].0 after the gathering loops
gather_pixel(s, T, row_idx, real_x) ==
    [subpixel_y \in 0..(Pixel_HEIGHT(T) - 1) |->
        [subpixel_x \in 0..(Pixel_WIDTH(T) - 1) |->
            IF <<subpixel_x, subpixel_y>> \in pixel_samples(s, T, row_idx, real_x)
            THEN s.content[row_idx + subpixel_y][real_x * Pixel_WIDTH(T) + subpixel_x].on
            ELSE FALSE]]

\* the sum of f over the set
RECURSIVE sum_over(_, _)
sum_over(set, f) ==
    IF set = {} THEN 0
    ELSE LET p == CHOOSE q \in set : TRUE
         IN f[p] + sum_over(set \ {p}, f)

\* the accumulation that adds up the samples that are off as well
gather_accum_every_sample(s, T, row_idx, real_x) ==
    LET samples == pixel_samples(s, T, row_idx, real_x)
        cell == [p \in samples |->
                    s.content[row_idx + p[2]][real_x * Pixel_WIDTH(T) + p[1]]]
    IN <<sum_over(samples, [p \in samples |-> cell[p].color.r]),
         sum_over(samples, [p \in samples |-> cell[p].color.g]),
         sum_over(samples, [p \in samples |-> cell[p].color.b]),
         Cardinality(samples)>>

\* color_accum[real_x] after the gathering loops: the sums of the channels of the
\* samples that are on, and their number
gather_accum(s, T, row_idx, real_x) ==
    LET samples == pixel_samples(s, T, row_idx, real_x)
        cell == [p \in samples |->
                    s.content[row_idx + p[2]][real_x * Pixel_WIDTH(T) + p[1]]]
        on == {p \in samples : cell[p].on}
    IN <<sum_over(on, [p \in on |-> cell[p].color.r]),
         sum_over(on, [p \in on |-> cell[p].color.g]),
         sum_over(on, [p \in on |-> cell[p].color.b]),
         Cardinality(on)>>

\* `as u8` of a u32
u32_as_u8(n) == n % 256

\* real_row[i].1 after "Compute average colors"
average_color(accum) ==
    IF accum[4] > 0
    THEN Rgb(u32_as_u8(accum[1] \div accum[4]),
             u32_as_u8(accum[2] \div accum[4]),
             u32_as_u8(accum[3] \div accum[4]))
    ELSE black

\* write_u8_to_buffer: the decimal digits of n, without leading zeros
write_u8_to_buffer(n) ==
    IF n >= 100 THEN <<48 + (n \div 100), 48 + ((n \div 10) % 10), 48 + (n % 10)>>
    ELSE IF n >= 10 THEN <<48 + (n \div 10), 48 + (n % 10)>>
    ELSE <<48 + n>>

\* char::encode_utf8
encode_utf8(ch) ==
    IF ch < 128 THEN <<ch>>
    ELSE IF ch < 2048 THEN <<192 + (ch \div 64), 128 + (ch % 64)>>
    ELSE IF ch < 65536
    THEN <<224 + (ch \div 4096), 128 + ((ch \div 64) % 64), 128 + (ch % 64)>>
    ELSE <<240 + (ch \div 262144), 128 + ((ch \div 4096) % 64),
           128 + ((ch \div 64) % 64), 128 + (ch % 64)>>

\* the bytes of a str whose chars are given
RECURSIVE as_bytes(_)
as_bytes(chars) ==
    IF chars = <<>> THEN <<>> ELSE encode_utf8(Head(chars)) \o as_bytes(Tail(chars))

\* b"\x1b[H\x1b[0m"
home_and_reset == <<27, 91, 72, 27, 91, 48, 109>>

\* b"\x1b[38;2;"
set_foreground == <<27, 91, 51, 56, 59, 50, 59>>

\* b"\x1b[K\r\n"
clear_line_newline == <<27, 91, 75, 13, 10>>

\* b"\x1b[0m"
reset_color == <<27, 91, 48, 109>>

\* b"\x1b[K"
clear_line == <<27, 91, 75>>

\* the colour-change sequence of "Build output for this row"
color_escape(color) ==
    set_foreground \o write_u8_to_buffer(color.r) \o <<59>>
        \o write_u8_to_buffer(color.g) \o <<59>>
        \o write_u8_to_buffer(color.b) \o <<109>>

\* Option<Rgb>
None == <<>>

Some(color) == <<color>>

\* current_color.map_or(true, |c| c.r != color.r || c.g != color.g || c.b != color.b)
color_differs(current_color, color) ==
    IF current_color = None THEN TRUE
    ELSE \/ current_color[1].r # color.r
         \/ current_color[1].g # color.g
         \/ current_color[1].b # color.b

\* "Build output for this row", for one pixel: the bytes appended and current_color
render_pixel(ch, color, differs, out) ==
    IF ch # 32
    THEN [buffer |-> out.buffer
                        \o (IF differs THEN color_escape(color) ELSE <<>>)
                        \o encode_utf8(ch),
          current_color |-> IF differs THEN Some(color) ELSE out.current_color]
    ELSE [buffer |-> Append(out.buffer, 32), current_color |-> out.current_color]

\* the pixels i.. of the glyph row that starts at row_idx
RECURSIVE render_row(_, _, _, _, _)
render_row(s, T, row_idx, i, out) ==
    IF i >= div_ceil(s.width, Pixel_WIDTH(T))
    THEN out
    ELSE render_row(
             s, T, row_idx, i + 1,
             render_pixel(to_char(T, gather_pixel(s, T, row_idx, i)),
                          average_color(gather_accum(s, T, row_idx, i)),
                          color_differs(out.current_color,
                                        average_color(gather_accum(s, T, row_idx, i))),
                          out))

\* the end of a glyph row: clear to the end of the line, and a newline
end_row(out) ==
    [buffer |-> out.buffer \o clear_line_newline, current_color |-> out.current_color]

\* `while row_idx < self.height as usize`
RECURSIVE render_rows(_, _, _, _)
render_rows(s, T, row_idx, out) ==
    IF row_idx >= s.height
    THEN out
    ELSE render_rows(s, T, row_idx + Pixel_HEIGHT(T),
                     end_row(render_row(s, T, row_idx, 0, out)))

\* n spaces
spaces(n) == [i \in 1..n |-> 32]

\* the padding that centres the status bar
status_padding(terminal_width, status_len) ==
    IF terminal_width > status_len THEN (terminal_width - status_len) \div 2 ELSE 0

\* Screen::render_with_status: the buffer it hands to write_all; status is the
\* sequence of the chars of the status bar
render_with_status(s, T, status) ==
    render_rows(s, T, 0, [buffer |-> home_and_reset, current_color |-> None]).buffer
        \o reset_color
        \o spaces(status_padding(div_ceil(s.width, Pixel_WIDTH(T)), Len(status)))
        \o as_bytes(status)
        \o clear_line

(***************************************************************************)
(* The inputs explored.                                                    *)
(***************************************************************************)
\* the first colour of the viridis palette of main
violet == Rgb(68, 1, 84)

\* the last colour of the viridis palette of main
yellow == Rgb(253, 231, 37)

Colors == {white, violet}

\* the colours of the two ends of a line or an edge: the white scheme, and the two ends
\* of viridis
ColorPairs == {<<white, white>>, <<violet, yellow>>}

\* the terminal sizes (columns, rows) that terminal::size() reports
TermSizes == (1..MaxTermCols) \X (1..MaxTermRows)

\* the sample points handed to the drawing calls: the framebuffer and a margin around it
Samples(s) ==
    {Point(x, y) : x \in (-Margin)..(s.width - 1 + Margin),
                   y \in (-Margin)..(s.height - 1 + Margin)}

\* a framebuffer that earlier draw calls have written: a line from corner to corner,
\* and one sample switched off again with a colour of its own
painted(s) ==
    write_color(
        line_color(s, Point(0, 0), Point(s.width - 1, s.height - 1), yellow, violet),
        FALSE, Point(0, s.height - 1), violet)

\* the clip rectangles tried: the whole framebuffer, and the upper half of its right half
Clips(s) ==
    {Clip(0, s.width, 0, s.height),
     Clip(s.width \div 2, s.width, 0, s.height \div 2)}

(***************************************************************************)
(* three.rs: the camera.                                                   *)
(***************************************************************************)
\* three::Point, a point (x/d, y/d, z/d) with d > 0
Point3(x, y, z) == [x |-> x, y |-> y, z |-> z, d |-> 1]

\* Camera::new; viewport_fov is held as tan(viewport_fov / 2) = tan_num / tan_den
Camera_new(coordinates, yaw, pitch, roll, viewport_distance, tan_num, tan_den) ==
    [coordinates |-> coordinates,
     yaw |-> yaw, pitch |-> pitch, roll |-> roll,
     viewport_distance |-> viewport_distance,
     tan_num |-> tan_num, tan_den |-> tan_den]

\* model::ColoredEdge
ColoredEdge(start, end, start_color, end_color) ==
    [start |-> start, end |-> end, start_color |-> start_color, end_color |-> end_color]

\* model::Model, as far as the camera reads it
Model(position, colored_edges) ==
    [position |-> position, colored_edges |-> colored_edges]

\* Model::model_to_world
model_to_world(model, point) ==
    [x |-> point.x + model.position.x,
     y |-> point.y + model.position.y,
     z |-> point.z + model.position.z,
     d |-> 1]

\* f32::sin and f32::cos of a whole number of quarter turns
sin_q(turns) ==
    CASE turns % 4 = 0 -> 0
      [] turns % 4 = 1 -> 1
      [] turns % 4 = 2 -> 0
      [] turns % 4 = 3 -> -1

cos_q(turns) == sin_q(turns + 1)

\* n / d rounded to the nearest integer, halves away from zero: f32::round, then `as i32`
round_div(n, d) ==
    LET num == IF d < 0 THEN -n ELSE n
        den == abs(d)
    IN IF num >= 0
       THEN (2 * num + den) \div (2 * den)
       ELSE -((2 * (-num) + den) \div (2 * den))

\* the transform with the depth taken from the point to the camera
world_to_camera_facing_back(cam, point) ==
    LET s_yaw == sin_q(cam.yaw)
        s_pitch == sin_q(cam.pitch)
        s_roll == sin_q(cam.roll)
        c_yaw == cos_q(cam.yaw)
        c_pitch == cos_q(cam.pitch)
        c_roll == cos_q(cam.roll)
        delta_x == point.x - cam.coordinates.x
        delta_y == point.y - cam.coordinates.y
        delta_z == cam.coordinates.z - point.z
        unyawed_x == delta_x * c_yaw - delta_z * s_yaw
        unyawed_y == delta_y
        unyawed_z == delta_x * s_yaw + delta_z * c_yaw
        unpitched_x == unyawed_x
        unpitched_y == unyawed_y * c_pitch - unyawed_z * s_pitch
        unpitched_z == unyawed_y * s_pitch + unyawed_z * c_pitch
        unrolled_x == unpitched_x * c_roll - unpitched_y * s_roll
        unrolled_y == unpitched_x * s_roll + unpitched_y * c_roll
        unrolled_z == unpitched_z
    IN [x |-> unrolled_x, y |-> unrolled_y, z |-> unrolled_z, d |-> 1]

\* Camera::world_to_camera (world points and the camera position are whole: d = 1)
world_to_camera(cam, point) ==
    LET s_yaw == sin_q(cam.yaw)
        s_pitch == sin_q(cam.pitch)
        s_roll == sin_q(cam.roll)
        c_yaw == cos_q(cam.yaw)
        c_pitch == cos_q(cam.pitch)
        c_roll == cos_q(cam.roll)
        delta_x == point.x - cam.coordinates.x
        delta_y == point.y - cam.coordinates.y
        delta_z == point.z - cam.coordinates.z
        unyawed_x == delta_x * c_yaw - delta_z * s_yaw
        unyawed_y == delta_y
        unyawed_z == delta_x * s_yaw + delta_z * c_yaw
        unpitched_x == unyawed_x
        unpitched_y == unyawed_y * c_pitch - unyawed_z * s_pitch
        unpitched_z == unyawed_y * s_pitch + unyawed_z * c_pitch
        unrolled_x == unpitched_x * c_roll - unpitched_y * s_roll
        unrolled_y == unpitched_x * s_roll + unpitched_y * c_roll
        unrolled_z == unpitched_z
    IN [x |-> unrolled_x, y |-> unrolled_y, z |-> unrolled_z, d |-> 1]

\* Camera::camera_to_screen.  With t = tan_num / tan_den:
\*   viewport_x / viewport_width   = x / (2 z t)
\*   viewport_y / viewport_height  = y * width / (2 z t * height)
\*   screen_x = (x / (2 z t) + 1/2) * width
\*   screen_y = (1 - (y * width / (2 z t * height) + 1/2)) * height
\* A height of 0 makes viewport_height 0 and screen_y NaN, which `as i32` turns into 0.
\* the projection with the viewport half as wide (tan(fov / 2) taken for the whole width)
camera_to_screen_half_viewport(cam, s, point) ==
    LET den == point.z * cam.tan_num
        screen_x_num == s.width * (point.x * cam.tan_den + point.z * cam.tan_num)
        screen_y_num == s.height * point.z * cam.tan_num
                            - point.y * s.width * cam.tan_den
    IN Point(round_div(screen_x_num, den),
             IF s.height = 0 THEN 0 ELSE round_div(screen_y_num, den))

camera_to_screen(cam, s, point) ==
    LET den == 2 * point.z * cam.tan_num
        screen_x_num == s.width * (point.x * cam.tan_den + point.z * cam.tan_num)
        screen_y_num == s.height * point.z * cam.tan_num
                            - point.y * s.width * cam.tan_den
    IN Point(round_div(screen_x_num, den),
             IF s.height = 0 THEN 0 ELSE round_div(screen_y_num, den))

\* the near-plane test of Camera::edge_color and Camera::plot_model_in_viewport:
\* camera_point.z < self.viewport_distance
behind_near_plane(cam, camera_point) ==
    camera_point.z < cam.viewport_distance * camera_point.d

\* the near-plane test of Camera::write: camera_point.z >= self.viewport_distance
\* a test that only keeps the divisor from being zero
not_level_with_camera(cam, camera_point) == camera_point.z # 0

in_front_of_near_plane(cam, camera_point) ==
    camera_point.z >= cam.viewport_distance * camera_point.d

\* what Camera::write decides for a point: whether a sample is written and, if so,
\* where; `divided` holds the camera-space points handed to the perspective divide
write_sample(s, cam, point) ==
    LET camera_point == world_to_camera(cam, point)
    IN IF in_front_of_near_plane(cam, camera_point)
       THEN [draw |-> TRUE, at |-> camera_to_screen(cam, s, camera_point),
             divided |-> <<camera_point>>]
       ELSE [draw |-> FALSE]

\* Screen::write
Screen_write(s, val, point) == write_color(s, val, point, white)

\* Camera::write
Camera_write(s, cam, val, point) ==
    LET sample == write_sample(s, cam, point)
    IN IF sample.draw THEN Screen_write(s, val, sample.at) ELSE s

\* Camera::is_in_frustum (margin factor 1.5 = 3/2)
is_in_frustum(cam, s, camera_point) ==
    IF camera_point.z < cam.viewport_distance * camera_point.d
    THEN FALSE
    ELSE \* abs(x) <= half_width with half_width = z * t * 3/2,
         \* abs(y) <= half_height with half_height = half_width * height / width
         /\ 2 * cam.tan_den * abs(camera_point.x) <= 3 * camera_point.z * cam.tan_num
         /\ 2 * cam.tan_den * s.width * abs(camera_point.y)
                <= 3 * camera_point.z * cam.tan_num * s.height

\* the outer test of the cull in Camera::edge_color
\* the test with `||` in place of `&&`
either_outside_frustum(cam, s, camera_start, camera_end) ==
    ~is_in_frustum(cam, s, camera_start) \/ ~is_in_frustum(cam, s, camera_end)

both_outside_frustum(cam, s, camera_start, camera_end) ==
    ~is_in_frustum(cam, s, camera_start) /\ ~is_in_frustum(cam, s, camera_end)

\* the frustum cull of Camera::edge_color: TRUE when the segment is skipped
frustum_culled(cam, s, camera_start, camera_end) ==
    /\ both_outside_frustum(cam, s, camera_start, camera_end)
    /\ LET both_left == camera_start.x < 0 /\ camera_end.x < 0
           both_right == camera_start.x > 0 /\ camera_end.x > 0
           both_up == camera_start.y > 0 /\ camera_end.y > 0
           both_down == camera_start.y < 0 /\ camera_end.y < 0
           z_min == min(camera_start.z, camera_end.z)
           \* v < -half_width, as 2 * tan_den * v < -(3 * z_min * tan_num)
           hw_num == 3 * z_min * cam.tan_num
           hw_den == 2 * cam.tan_den
           \* v < -half_height, with half_height = half_width * height / width
           hh_num == 3 * z_min * cam.tan_num * s.height
           hh_den == 2 * cam.tan_den * s.width
       IN /\ both_left \/ both_right \/ both_up \/ both_down
          /\ \/ /\ both_left
                /\ hw_den * camera_start.x < -hw_num
                /\ hw_den * camera_end.x < -hw_num
             \/ /\ both_right
                /\ hw_den * camera_start.x > hw_num
                /\ hw_den * camera_end.x > hw_num
             \/ /\ both_up
                /\ hh_den * camera_start.y > hh_num
                /\ hh_den * camera_end.y > hh_num
             \/ /\ both_down
                /\ hh_den * camera_start.y < -hh_num
                /\ hh_den * camera_end.y < -hh_num

\* the near-plane clip of Camera::edge_color: which endpoint is clipped, lambda,
\* the synthesized point and its colour
clip_segment(cam, camera_start, camera_end, start_color, end_color, clip_start) ==
    LET clipped == IF clip_start THEN camera_start ELSE camera_end
        unclipped == IF clip_start THEN camera_end ELSE camera_start
        clipped_color == IF clip_start THEN start_color ELSE end_color
        unclipped_color == IF clip_start THEN end_color ELSE start_color
        \* lambda = (viewport_distance - clipped.z) / (unclipped.z - clipped.z)
        lambda_num == cam.viewport_distance - clipped.z
        lambda_den == unclipped.z - clipped.z
    IN [lambda_num |-> lambda_num,
        lambda_den |-> lambda_den,
        \* (lambda * (unclipped.x - clipped.x) + clipped.x, ..., viewport_distance),
        \* over the common denominator lambda_den
        new_clipped |->
            [x |-> lambda_num * (unclipped.x - clipped.x) + clipped.x * lambda_den,
             y |-> lambda_num * (unclipped.y - clipped.y) + clipped.y * lambda_den,
             z |-> cam.viewport_distance * lambda_den,
             d |-> lambda_den],
        \* ((1.0 - lambda) * clipped_color + lambda * unclipped_color) as u8
        clip_color |->
            blend_color(lambda_num, lambda_den, clipped_color, unclipped_color),
        unclipped |-> unclipped,
        unclipped_color |-> unclipped_color]

\* what Camera::edge_color decides for a segment: whether a line is handed to
\* Screen::line_color and, if so, its endpoints and colours
edge_segment_clipped(s, cam, seg) ==
    \* the clipped branch: the line from the synthesized point to the unclipped one
    [draw |-> TRUE, why |-> "clipped",
     start |-> camera_to_screen(cam, s, seg.new_clipped),
     end |-> camera_to_screen(cam, s, seg.unclipped),
     start_color |-> seg.clip_color, end_color |-> seg.unclipped_color,
     divided |-> <<seg.new_clipped, seg.unclipped>>]

edge_segment_camera(s, cam, camera_start, camera_end, start_color, end_color, clip_start, clip_end) ==
    \* the branches, from the endpoints in camera space and their near-plane flags
    IF clip_start /\ clip_end
    THEN [draw |-> FALSE, why |-> "behind"]
    ELSE IF ~clip_start /\ ~clip_end
    THEN IF frustum_culled(cam, s, camera_start, camera_end)
         THEN [draw |-> FALSE, why |-> "culled"]
         ELSE [draw |-> TRUE, why |-> "unclipped",
               start |-> camera_to_screen(cam, s, camera_start),
               end |-> camera_to_screen(cam, s, camera_end),
               start_color |-> start_color, end_color |-> end_color,
               divided |-> <<camera_start, camera_end>>]
    ELSE edge_segment_clipped(
             s, cam,
             clip_segment(cam, camera_start, camera_end, start_color, end_color,
                          clip_start))

edge_segment_flags(s, cam, camera_start, camera_end, start_color, end_color) ==
    edge_segment_camera(s, cam, camera_start, camera_end, start_color, end_color,
                        behind_near_plane(cam, camera_start),
                        behind_near_plane(cam, camera_end))

edge_segment(s, cam, start, end, start_color, end_color) ==
    edge_segment_flags(s, cam, world_to_camera(cam, start), world_to_camera(cam, end),
                       start_color, end_color)

\* the call of Screen::line_color that ends Camera::edge_color, or the early return
edge_draw(s, seg) ==
    IF seg.draw
    THEN line_color(s, seg.start, seg.end, seg.start_color, seg.end_color)
    ELSE s

\* Camera::edge_color
edge_color(s, cam, start, end, start_color, end_color) ==
    edge_draw(s, edge_segment(s, cam, start, end, start_color, end_color))

\* Camera::camera_to_viewport_screen, with aspect = viewport_height / viewport_width
\* as Camera::plot_model_in_viewport passes it:
\*   screen_x = (x / (2 z t) + 1/2) * viewport_width
\*   screen_y = (1 - (y * viewport_width / (2 z t * viewport_height) + 1/2)) * viewport_height
\* A viewport_height of 0 makes screen_y NaN, which `as i32` turns into 0; a
\* viewport_width of 0 makes aspect infinite and screen_y = viewport_height / 2.
camera_to_viewport_screen(cam, point, viewport_width, viewport_height) ==
    LET den == 2 * point.z * cam.tan_num
        screen_x_num == viewport_width * (point.x * cam.tan_den + point.z * cam.tan_num)
        screen_y_num == viewport_height * point.z * cam.tan_num
                            - point.y * viewport_width * cam.tan_den
    IN Point(round_div(screen_x_num, den),
             IF viewport_height = 0 THEN 0 ELSE round_div(screen_y_num, den))

\* the near-plane clip of Camera::plot_model_in_viewport (the code of edge_color, repeated)
viewport_clip_segment(cam, camera_start, camera_end, start_color, end_color, clip_start) ==
    LET clipped == IF clip_start THEN camera_start ELSE camera_end
        unclipped == IF clip_start THEN camera_end ELSE camera_start
        clipped_color == IF clip_start THEN start_color ELSE end_color
        unclipped_color == IF clip_start THEN end_color ELSE start_color
        lambda_num == cam.viewport_distance - clipped.z
        lambda_den == unclipped.z - clipped.z
    IN [lambda_num |-> lambda_num,
        lambda_den |-> lambda_den,
        new_clipped |->
            [x |-> lambda_num * (unclipped.x - clipped.x) + clipped.x * lambda_den,
             y |-> lambda_num * (unclipped.y - clipped.y) + clipped.y * lambda_den,
             z |-> cam.viewport_distance * lambda_den,
             d |-> lambda_den],
        clip_color |->
            blend_color(lambda_num, lambda_den, clipped_color, unclipped_color),
        unclipped |-> unclipped,
        unclipped_color |-> unclipped_color]

\* what one iteration of the loop of Camera::plot_model_in_viewport decides for an
\* edge: whether a line is handed to Screen::line_color_clipped and, if so, its
\* endpoints and colours
viewport_segment_offset(screen_start, screen_end, start_color, end_color, viewport_x_offset) ==
    \* offset_start and offset_end, and the colours handed on
    [draw |-> TRUE,
     start |-> Point(screen_start.x + viewport_x_offset, screen_start.y),
     end |-> Point(screen_end.x + viewport_x_offset, screen_end.y),
     start_color |-> start_color,
     end_color |-> end_color]

viewport_segment_clipped(cam, seg, viewport_x_offset, viewport_width, viewport_height) ==
    \* the clipped branch: the line from the synthesized point to the unclipped one
    viewport_segment_offset(
        camera_to_viewport_screen(cam, seg.new_clipped, viewport_width, viewport_height),
        camera_to_viewport_screen(cam, seg.unclipped, viewport_width, viewport_height),
        seg.clip_color, seg.unclipped_color, viewport_x_offset)
    @@ [divided |-> <<seg.new_clipped, seg.unclipped>>]

viewport_segment_camera(cam, camera_start, camera_end, start_color, end_color, clip_start, clip_end, viewport_x_offset, viewport_width, viewport_height) ==
    \* the branches, from the endpoints in camera space and their near-plane flags
    IF clip_start /\ clip_end
    THEN [draw |-> FALSE]
    ELSE IF ~clip_start /\ ~clip_end
    THEN viewport_segment_offset(
             camera_to_viewport_screen(cam, camera_start, viewport_width, viewport_height),
             camera_to_viewport_screen(cam, camera_end, viewport_width, viewport_height),
             start_color, end_color, viewport_x_offset)
         @@ [divided |-> <<camera_start, camera_end>>]
    ELSE viewport_segment_clipped(
             cam,
             viewport_clip_segment(cam, camera_start, camera_end, start_color, end_color,
                                   clip_start),
             viewport_x_offset, viewport_width, viewport_height)

viewport_segment_flags(cam, camera_start, camera_end, start_color, end_color, viewport_x_offset, viewport_width, viewport_height) ==
    viewport_segment_camera(cam, camera_start, camera_end, start_color, end_color,
                            behind_near_plane(cam, camera_start),
                            behind_near_plane(cam, camera_end),
                            viewport_x_offset, viewport_width, viewport_height)

viewport_segment(cam, model, edge, viewport_x_offset, viewport_width, viewport_height) ==
    viewport_segment_flags(cam,
                           world_to_camera(cam, model_to_world(model, edge.start)),
                           world_to_camera(cam, model_to_world(model, edge.end)),
                           edge.start_color, edge.end_color,
                           viewport_x_offset, viewport_width, viewport_height)

\* the clip rectangle of Camera::plot_model_in_viewport
\* a clip that is open to the right of the region
viewport_clip_open_right(viewport_x_offset, viewport_width, viewport_height) ==
    Clip(viewport_x_offset, 65536, 0, viewport_height)

viewport_clip(viewport_x_offset, viewport_width, viewport_height) ==
    Clip(viewport_x_offset, viewport_x_offset + viewport_width, 0, viewport_height)

\* one iteration of the loop of Camera::plot_model_in_viewport: one edge of the model
viewport_draw(s, seg, clip) ==
    \* the call of Screen::line_color_clipped that ends the iteration, or the `continue`
    IF seg.draw
    THEN line_color_clipped(s, seg.start, seg.end, seg.start_color, seg.end_color, clip)
    ELSE s

viewport_edge(s, cam, model, edge, viewport_x_offset, viewport_width, viewport_height) ==
    viewport_draw(s,
                  viewport_segment(cam, model, edge,
                                   viewport_x_offset, viewport_width, viewport_height),
                  viewport_clip(viewport_x_offset, viewport_width, viewport_height))

\* the loop of Camera::plot_model_in_viewport, from edge i on
RECURSIVE viewport_edges(_, _, _, _, _, _, _)
viewport_edges(s, cam, model, i, viewport_x_offset, viewport_width, viewport_height) ==
    IF i > Len(model.colored_edges)
    THEN s
    ELSE viewport_edges(
             viewport_edge(s, cam, model, model.colored_edges[i],
                           viewport_x_offset, viewport_width, viewport_height),
             cam, model, i + 1, viewport_x_offset, viewport_width, viewport_height)

\* the end of Camera::plot_model_in_viewport: the saved pose is put back
\* the restore that forgets the pitch
restore_pose_without_pitch(cam, orig_coords, orig_yaw, orig_pitch) ==
    [cam EXCEPT !.coordinates = orig_coords, !.yaw = orig_yaw]

restore_pose(cam, orig_coords, orig_yaw, orig_pitch) ==
    [cam EXCEPT !.coordinates = orig_coords, !.yaw = orig_yaw, !.pitch = orig_pitch]

\* Camera::plot_model_in_viewport: the framebuffer and the camera it leaves
plot_model_in_viewport(s, cam, model, camera_pos, yaw, pitch, viewport_x_offset, viewport_width, viewport_height) ==
    LET orig_coords == cam.coordinates
        orig_yaw == cam.yaw
        orig_pitch == cam.pitch
        posed == [cam EXCEPT !.coordinates = camera_pos, !.yaw = yaw, !.pitch = pitch]
    IN [screen |-> viewport_edges(s, posed, model, 1,
                                  viewport_x_offset, viewport_width, viewport_height),
        camera |-> restore_pose(posed, orig_coords, orig_yaw, orig_pitch)]

(***************************************************************************)
(* The inputs explored by the camera calls.                                *)
(***************************************************************************)
\* world coordinates tried: x at the extremes -MaxWorld and MaxWorld and around the view
\* axis; y in -MaxLift..MaxLift; z behind the camera (-1), level with it (0), on the
\* near plane (1) and far from it (MaxWorld)
MaxWorld == 3
MaxLift == 1
\* models tried by the compositor hold up to MaxEdges edges
MaxEdges == 1
\* the compositor is tried for splits into 2..MaxModels columns
MaxModels == 3

WorldPoints ==
    {Point3(x, y, z) : x \in {-MaxWorld, -1, 0, 1, MaxWorld}, y \in (-MaxLift)..MaxLift,
                       z \in {-1, 0, 1, MaxWorld}}


\* the endpoints of the edges of the models composited: ahead of the camera in the
\* middle, to its left and to its right, and level with and behind it
ViewportPoints ==
    {Point3(0, 0, 2), Point3(-2, 1, 1), Point3(2, -1, 1), Point3(1, 0, 0), Point3(0, 1, -1)}

\* the edges a model takes from a face of its mesh: the pairs of consecutive vertices,
\* coloured by the colour scheme
face_edges(vertices, c) ==
    [i \in 1..(Len(vertices) - 1) |-> ColoredEdge(vertices[i], vertices[i + 1], c[1], c[2])]

\* the vertex lists tried: up to MaxEdges + 1 of ViewportPoints, in any order
Faces == UNION {[1..(k + 1) -> ViewportPoints] : k \in 1..MaxEdges}

\* the models composited: one without edges, and the edges of one face
ViewportModels ==
    {Model(position, edges) :
        position \in {Point3(0, 0, 0), Point3(1, 0, 0)},
        edges \in {<<>>} \cup {face_edges(f, c) : f \in Faces, c \in ColorPairs}}

\* the poses the compositor is given: (camera_pos, yaw, pitch)
ViewportPoses ==
    {[camera_pos |-> Point3(0, 0, 0), yaw |-> 0, pitch |-> 0],
     [camera_pos |-> Point3(-1, 0, -1), yaw |-> -1, pitch |-> 1]}

\* the regions the frame loop of main hands to the compositor for n models, region i
\* being (i * viewport_width, viewport_width, full_height) with
\* viewport_width = width / n; and the same columns at half the height
Regions(s) ==
    UNION {{[viewport_x_offset |-> i * (s.width \div n),
             viewport_width |-> s.width \div n,
             viewport_height |-> h] :
                i \in 0..(n - 1), h \in {s.height, s.height \div 2}} :
           n \in 2..MaxModels}

\* the arguments (viewport_x_offset, viewport_width, viewport_height) the multi-viewport
\* branch of main passes for its models, in order, on a framebuffer of the given size
viewport_regions(width, height, num_models) ==
    LET viewport_width == width \div num_models
        full_height == height
    IN [i \in 1..num_models |->
           [viewport_x_offset |-> ((i - 1) * viewport_width) % 65536,
            viewport_width |-> viewport_width,
            viewport_height |-> full_height]]

\* the loop of the multi-viewport branch of main, from model i on: each model is drawn
\* into its region with the frame's yaw and pitch
RECURSIVE plot_viewports(_, _, _, _, _, _)
plot_viewports(s, cam, models, pose, regions, i) ==
    IF i > Len(models)
    THEN [screen |-> s, camera |-> cam]
    ELSE LET drawn == plot_model_in_viewport(s, cam, models[i], pose.camera_pos,
                                             pose.yaw, pose.pitch,
                                             regions[i].viewport_x_offset,
                                             regions[i].viewport_width,
                                             regions[i].viewport_height)
         IN plot_viewports(drawn.screen, drawn.camera, models, pose, regions, i + 1)

\* the multi-viewport branch of main for the given models
multi_viewport(s, cam, models, pose) ==
    plot_viewports(s, cam, models, pose,
                   viewport_regions(s.width, s.height, Len(models)), 1)

(***************************************************************************)
(* main.rs: the viewer.  The locals of main that make up the view (angles, *)
(* zoom distance, mouse speed) are f32 and are modelled as exact fractions *)
(* <<numerator, denominator>> in lowest terms.  Sines and cosines of the   *)
(* view angles are not computed: a camera position is held as the orbit    *)
(* that determines it (centre, distance, yaw, pitch), and the pan centre   *)
(* as the model centre and the pan steps applied to it.                    *)
(***************************************************************************)
RECURSIVE gcd(_, _)
gcd(a, b) == IF b = 0 THEN a ELSE gcd(b, a % b)

\* the fraction n / d (d # 0) in lowest terms, denominator positive
rat(n, d) ==
    LET g == gcd(abs(n), abs(d))
    IN IF d < 0 THEN <<(-n) \div g, (-d) \div g>> ELSE <<n \div g, d \div g>>

rat_add(a, b) == rat(a[1] * b[2] + b[1] * a[2], a[2] * b[2])

rat_sub(a, b) == rat(a[1] * b[2] - b[1] * a[2], a[2] * b[2])

rat_mul(a, b) == rat(a[1] * b[1], a[2] * b[2])

rat_div(a, b) == rat(a[1] * b[2], a[2] * b[1])

\* f32::max, f32::min
rat_max(a, b) == IF a[1] * b[2] >= b[1] * a[2] THEN a ELSE b

rat_min(a, b) == IF a[1] * b[2] <= b[1] * a[2] THEN a ELSE b

MOUSE_SPEED_MULTIPLIER == 30

INITIAL_DISTANCE_MULTIPLIER == rat(12, 10)

SCROLL_MULTIPLER == rat(3, 100)

PAN_MULTIPLIER == rat(1, 10)

AUTO_ROTATE_SPEED == rat(2, 1000)

initial_yaw == rat(3, 10)

initial_pitch == rat(2, 10)

\* ColorScheme::next, as the pairs (scheme, next scheme) of its match
\* the match with Spectral going straight to Rainbow
ColorScheme_arms_skipping_white ==
    <<<<"rainbow", "blues">>, <<"blues", "greens">>, <<"greens", "reds">>,
      <<"reds", "oranges">>, <<"oranges", "purples">>, <<"purples", "viridis">>,
      <<"viridis", "plasma">>, <<"plasma", "magma">>, <<"magma", "inferno">>,
      <<"inferno", "coolwarm">>, <<"coolwarm", "spectral">>, <<"spectral", "rainbow">>,
      <<"white", "rainbow">>>>

ColorScheme_arms ==
    <<<<"rainbow", "blues">>, <<"blues", "greens">>, <<"greens", "reds">>,
      <<"reds", "oranges">>, <<"oranges", "purples">>, <<"purples", "viridis">>,
      <<"viridis", "plasma">>, <<"plasma", "magma">>, <<"magma", "inferno">>,
      <<"inferno", "coolwarm">>, <<"coolwarm", "spectral">>, <<"spectral", "white">>,
      <<"white", "rainbow">>>>

ColorScheme_next(scheme) ==
    LET i == CHOOSE i \in DOMAIN ColorScheme_arms : ColorScheme_arms[i][1] = scheme
    IN ColorScheme_arms[i][2]

\* what main has loaded: the inputs named on the command line, and the centre and the
\* diagonal of each model's bounds
Loaded(inputs, model_centers, model_diagonals) ==
    [inputs |-> inputs,
     num_models |-> Len(model_centers),
     model_centers |-> model_centers,
     model_diagonals |-> model_diagonals]

RECURSIVE fold_max(_, _, _)
fold_max(values, i, acc) ==
    IF i > Len(values) THEN acc ELSE fold_max(values, i + 1, rat_max(acc, values[i]))

max_diagonal(loaded) == fold_max(loaded.model_diagonals, 1, rat(0, 1))

initial_distance(loaded) == rat_mul(max_diagonal(loaded), INITIAL_DISTANCE_MULTIPLIER)

\* model_centers.get(0).cloned().unwrap_or(Point::new(0., 0., 0.)), with no pan step
initial_pan_center(loaded) ==
    [center |-> IF loaded.num_models > 0 THEN loaded.model_centers[1] ELSE Point3(0, 0, 0),
     pans |-> <<>>]

\* the view state of main before the frame loop
initial_view(loaded, color_scheme) ==
    [view_yaw |-> initial_yaw,
     view_pitch |-> initial_pitch,
     distance_to_model |-> initial_distance(loaded),
     pan_center |-> initial_pan_center(loaded),
     pan_mode |-> FALSE,
     auto_rotate |-> TRUE,
     mouse_speed |-> <<rat(0, 1), rat(0, 1)>>,
     last_mouse_position |-> Point(0, 0),
     start_mouse_position |-> Point(0, 0),
     event_count |-> 0,
     color_scheme |-> color_scheme]

\* the locals set at the top of an iteration of the frame loop
begin_frame(view) ==
    [view EXCEPT !.start_mouse_position = view.last_mouse_position, !.event_count = 0]

KeyEvent(code, modifiers) == [type |-> "Key", code |-> code, modifiers |-> modifiers]

MouseEvent(kind, column, row, modifiers) ==
    [type |-> "Mouse", kind |-> kind, column |-> column, row |-> row,
     modifiers |-> modifiers]

\* the test of the key arm that ends in graceful_close
is_quit(event) ==
    /\ event.type = "Key"
    /\ LET is_ctrl_c == event.modifiers = "CONTROL" /\ event.code = "c"
       IN is_ctrl_c \/ event.code = "q"

\* the key arm, for a key that does not quit
\* the key arm whose reset leaves the auto-rotate flag as it is
handle_key_reset_keeps_rotation(view, loaded, key_event) ==
    LET colored == IF key_event.code = "c"
                   THEN [view EXCEPT !.color_scheme = ColorScheme_next(view.color_scheme)]
                   ELSE view
        rotated == IF key_event.code = "r"
                   THEN [colored EXCEPT !.auto_rotate = ~colored.auto_rotate]
                   ELSE colored
    IN IF key_event.code = "0"
       THEN [rotated EXCEPT !.view_yaw = initial_yaw,
                            !.view_pitch = initial_pitch,
                            !.distance_to_model = initial_distance(loaded),
                            !.pan_center = initial_pan_center(loaded)]
       ELSE rotated

handle_key(view, loaded, key_event) ==
    LET colored == IF key_event.code = "c"
                   THEN [view EXCEPT !.color_scheme = ColorScheme_next(view.color_scheme)]
                   ELSE view
        rotated == IF key_event.code = "r"
                   THEN [colored EXCEPT !.auto_rotate = ~colored.auto_rotate]
                   ELSE colored
    IN IF key_event.code = "0"
       THEN [rotated EXCEPT !.view_yaw = initial_yaw,
                            !.view_pitch = initial_pitch,
                            !.distance_to_model = initial_distance(loaded),
                            !.pan_center = initial_pan_center(loaded),
                            !.auto_rotate = TRUE]
       ELSE rotated

\* delta / camera.screen.width * MOUSE_SPEED_MULTIPLIER; a width of 0 gives an infinity
\* or a NaN
drag_speed(delta, width) ==
    IF width = 0 THEN "not finite" ELSE rat(delta * MOUSE_SPEED_MULTIPLIER, width)

\* the mouse arm
handle_mouse(view, loaded, width, mouse_event) ==
    LET pan_mode == mouse_event.modifiers = "SHIFT"
        position == Point(mouse_event.column, mouse_event.row)
        scroll == rat_mul(max_diagonal(loaded), SCROLL_MULTIPLER)
    IN CASE mouse_event.kind = "Down" ->
                [view EXCEPT !.pan_mode = pan_mode,
                             !.last_mouse_position = position,
                             !.start_mouse_position = position,
                             !.event_count = @ + 1]
         [] mouse_event.kind = "Drag" ->
                [view EXCEPT !.pan_mode = pan_mode,
                             !.auto_rotate = IF pan_mode THEN @ ELSE FALSE,
                             !.mouse_speed =
                                 <<drag_speed(mouse_event.column
                                                  - view.start_mouse_position.x, width),
                                   drag_speed(view.start_mouse_position.y
                                                  - mouse_event.row, width)>>,
                             !.last_mouse_position = position,
                             !.event_count = @ + 1]
         [] mouse_event.kind = "ScrollDown" ->
                [view EXCEPT !.distance_to_model = rat_add(@, scroll)]
         [] mouse_event.kind = "ScrollUp" ->
                [view EXCEPT !.distance_to_model = rat_max(rat_sub(@, scroll), rat(0, 1))]
         [] OTHER -> view

\* the body of the event loop for an event that does not quit
handle_event(view, loaded, width, event) ==
    CASE event.type = "Key" -> handle_key(view, loaded, event)
      [] event.type = "Mouse" -> handle_mouse(view, loaded, width, event)
      [] OTHER -> view

\* `if event_count == 0 { mouse_speed = (0., 0.); pan_mode = false; }`
\* the reset that stops the mouse but leaves pan mode as it is
settle_keeps_pan_mode(view) ==
    IF view.event_count = 0
    THEN [view EXCEPT !.mouse_speed = <<rat(0, 1), rat(0, 1)>>]
    ELSE view

settle(view) ==
    IF view.event_count = 0
    THEN [view EXCEPT !.mouse_speed = <<rat(0, 1), rat(0, 1)>>, !.pan_mode = FALSE]
    ELSE view

\* the five updates of pan_center: a step along the camera's right and up directions,
\* of length proportional to the mouse speed; a speed of zero moves nothing
pan(pan_center, mouse_speed, cam, scale) ==
    IF mouse_speed = <<rat(0, 1), rat(0, 1)>>
    THEN pan_center
    ELSE [pan_center EXCEPT !.pans =
             Append(@, [mouse_speed |-> mouse_speed, yaw |-> cam.yaw, pitch |-> cam.pitch,
                        scale |-> scale])]

\* the pose update of a frame
update_pose(view, loaded, cam) ==
    IF view.pan_mode
    THEN [view EXCEPT !.pan_center =
             pan(@, view.mouse_speed, cam, rat_mul(max_diagonal(loaded), PAN_MULTIPLIER))]
    ELSE IF view.auto_rotate
    THEN [view EXCEPT !.view_yaw = rat_add(@, AUTO_ROTATE_SPEED)]
    ELSE [view EXCEPT !.view_yaw = rat_sub(@, view.mouse_speed[1]),
                      !.view_pitch = rat_sub(@, view.mouse_speed[2])]

\* the closure calc_camera_pos: the point at distance dist from center, in the direction
\* given by view_yaw and view_pitch
calc_camera_pos(view, center, dist) ==
    [center |-> center, dist |-> dist, yaw |-> view.view_yaw, pitch |-> view.view_pitch]

\* the camera position of the single-model branch
single_camera_pos(view) == calc_camera_pos(view, view.pan_center, view.distance_to_model)

\* the camera position the multi-viewport branch hands to plot_model_in_viewport for
\* model i (1-based) on a framebuffer of the given width and height
viewport_camera_pos(view, loaded, width, height, i) ==
    LET viewport_width == width \div loaded.num_models
        limiting_size == rat_min(rat(viewport_width, 1), rat(height, 2))
        scale_factor == rat_mul(limiting_size, rat(12, 1000))
        base_distance == rat_mul(rat_mul(loaded.model_diagonals[i],
                                         INITIAL_DISTANCE_MULTIPLIER), scale_factor)
        model_distance == rat_mul(base_distance,
                                  rat_div(view.distance_to_model, initial_distance(loaded)))
    IN calc_camera_pos(view, [center |-> loaded.model_centers[i], pans |-> <<>>],
                       model_distance)

\* the camera positions a frame renders its models from
camera_positions(view, loaded, width, height) ==
    IF loaded.num_models = 1
    THEN <<single_camera_pos(view)>>
    ELSE [i \in 1..loaded.num_models |-> viewport_camera_pos(view, loaded, width, height, i)]

(***************************************************************************)
(* main.rs: the terminal, the status line and the exits.  A string is the  *)
(* sequence of its chars (Unicode scalar values).                          *)
(***************************************************************************)
\* ColorScheme::name, as the pairs (scheme, chars of its name) of its match
ColorScheme_names ==
    <<<<"rainbow", <<114, 97, 105, 110, 98, 111, 119>>>>,
      <<"blues", <<98, 108, 117, 101, 115>>>>,
      <<"greens", <<103, 114, 101, 101, 110, 115>>>>,
      <<"reds", <<114, 101, 100, 115>>>>,
      <<"oranges", <<111, 114, 97, 110, 103, 101, 115>>>>,
      <<"purples", <<112, 117, 114, 112, 108, 101, 115>>>>,
      <<"viridis", <<118, 105, 114, 105, 100, 105, 115>>>>,
      <<"plasma", <<112, 108, 97, 115, 109, 97>>>>,
      <<"magma", <<109, 97, 103, 109, 97>>>>,
      <<"inferno", <<105, 110, 102, 101, 114, 110, 111>>>>,
      <<"coolwarm", <<99, 111, 111, 108, 119, 97, 114, 109>>>>,
      <<"spectral", <<115, 112, 101, 99, 116, 114, 97, 108>>>>,
      <<"white", <<119, 104, 105, 116, 101>>>>>>

ColorScheme_name(scheme) ==
    LET i == CHOOSE i \in DOMAIN ColorScheme_names : ColorScheme_names[i][1] = scheme
    IN ColorScheme_names[i][2]

\* str::to_lowercase of a string of ASCII chars
to_lowercase(chars) ==
    [i \in DOMAIN chars |-> IF chars[i] >= 65 /\ chars[i] <= 90 THEN chars[i] + 32 ELSE chars[i]]

\* ColorScheme::from_str, as the pairs (chars of the pattern, scheme) of its match
ColorScheme_from_str_arms ==
    <<<<<<114, 97, 105, 110, 98, 111, 119>>, "rainbow">>,
      <<<<98, 108, 117, 101, 115>>, "blues">>,
      <<<<103, 114, 101, 101, 110, 115>>, "greens">>,
      <<<<114, 101, 100, 115>>, "reds">>,
      <<<<111, 114, 97, 110, 103, 101, 115>>, "oranges">>,
      <<<<112, 117, 114, 112, 108, 101, 115>>, "purples">>,
      <<<<118, 105, 114, 105, 100, 105, 115>>, "viridis">>,
      <<<<112, 108, 97, 115, 109, 97>>, "plasma">>,
      <<<<109, 97, 103, 109, 97>>, "magma">>,
      <<<<105, 110, 102, 101, 114, 110, 111>>, "inferno">>,
      <<<<99, 111, 111, 108, 119, 97, 114, 109>>, "coolwarm">>,
      <<<<115, 112, 101, 99, 116, 114, 97, 108>>, "spectral">>,
      <<<<119, 104, 105, 116, 101>>, "white">>>>

\* ColorScheme::from_str: Some(scheme) or None, held as <<scheme>> or <<>>
ColorScheme_from_str(chars) ==
    LET lowered == to_lowercase(chars)
        hits == {i \in DOMAIN ColorScheme_from_str_arms :
                    ColorScheme_from_str_arms[i][1] = lowered}
    IN IF hits = {} THEN <<>>
       ELSE <<ColorScheme_from_str_arms[CHOOSE i \in hits : \A j \in hits : i <= j][2]>>

\* args.inputs.join("+")
RECURSIVE join_plus(_, _)
join_plus(inputs, i) ==
    IF i > Len(inputs) THEN <<>>
    ELSE (IF i > 1 THEN <<43>> ELSE <<>>) \o inputs[i] \o join_plus(inputs, i + 1)

\* the three status texts of a frame, for a frame rate that formats as "30":
\* "{} | {} | {} | {:.0}fps | [r]otate [c]olor [0]reset [q]uit", the same up to "fps",
\* and "{} | {}"
status_texts(inputs, view) ==
    LET rotate_msg == IF view.auto_rotate THEN <<97, 117, 116, 111>> ELSE <<109, 97, 110, 117, 97, 108>>
        input_display == join_plus(inputs, 1)
        bar == <<32, 124, 32>>
        status_short == input_display \o bar \o ColorScheme_name(view.color_scheme)
        status_medium == status_short \o bar \o rotate_msg \o bar \o <<51, 48, 102, 112, 115>>
        status_full == status_medium \o bar
                           \o <<91, 114, 93, 111, 116, 97, 116, 101, 32, 91, 99, 93, 111, 108, 111, 114, 32, 91, 48, 93, 114, 101, 115, 101, 116, 32, 91, 113, 93, 117, 105, 116>>
    IN <<status_full, status_medium, status_short>>

\* the match that picks the longest status text shorter than the terminal is wide
final_msg(w, texts) ==
    IF w > Len(texts[1]) THEN texts[1]
    ELSE IF w > Len(texts[2]) THEN texts[2]
    ELSE IF w > Len(texts[3]) THEN texts[3]
    ELSE <<>>

\* Screen::fit_to_terminal::<T>, for a terminal that reports (terminal_width,
\* terminal_height); the products and the difference are u16
\* fit_to_terminal with the status row taken off in samples, not in terminal rows
fit_to_terminal_less_one_sample(s, T, terminal_width, terminal_height) ==
    resize(s,
           (terminal_width * Pixel_WIDTH(T)) % 65536,
           (((terminal_height * Pixel_HEIGHT(T)) % 65536) - 1) % 65536)

fit_to_terminal(s, T, terminal_width, terminal_height) ==
    resize(s,
           (terminal_width * Pixel_WIDTH(T)) % 65536,
           (((terminal_height - 1) % 65536) * Pixel_HEIGHT(T)) % 65536)

\* an operation of Screen::fit_to_terminal leaves the u16 range: the difference for a
\* terminal of 0 rows, or one of the two products
fit_to_terminal_overflows(T, terminal_width, terminal_height) ==
    \/ terminal_width * Pixel_WIDTH(T) > 65535
    \/ terminal_height - 1 < 0
    \/ (terminal_height - 1) * Pixel_HEIGHT(T) > 65535

\* the terminal before main touches it
cooked_terminal ==
    [raw_mode |-> FALSE, alternate_screen |-> FALSE, cursor_hidden |-> FALSE,
     mouse_capture |-> FALSE, was_raw |-> FALSE, pending |-> <<>>, frames |-> 0]

\* cleanup_terminal
cleanup_terminal(t) ==
    [t EXCEPT !.raw_mode = FALSE, !.cursor_hidden = FALSE,
              !.mouse_capture = FALSE, !.alternate_screen = FALSE]

\* the panic hook main installs
\* the hook that only reports the panic
panic_hook_report_only(t) == t

panic_hook(t) == cleanup_terminal(t)

\* graceful_close, up to the exit
graceful_close(t) == cleanup_terminal(t)

(***************************************************************************)
(* The inputs explored by the glyph packer.                                *)
(***************************************************************************)
\* terminal sizes whose framebuffer is packed: 1..MaxRenderCols columns and
\* 1..MaxRenderRows rows
MaxRenderCols == 2
MaxRenderRows == 3
\* at most MaxMarks samples of a framebuffer are written before it is packed
MaxMarks == 2

RenderTermSizes == (1..MaxRenderCols) \X (1..MaxRenderRows)

\* the framebuffer of a terminal of one column and two rows, one dot-matrix pixel, in
\* which Screen::write has switched on the samples of the pattern
pixel_screen(pixel) ==
    [Screen_new(1, 2) EXCEPT !.content =
        [y \in 0..(BrailePixel_HEIGHT - 1) |->
            [x \in 0..(BrailePixel_WIDTH - 1) |-> [on |-> pixel[y][x], color |-> white]]]]

RenderScreens ==
    {Screen_new(t[1], t[2]) : t \in RenderTermSizes}
        \cup {pixel_screen(pixel) : pixel \in Pixels("BrailePixel")}

\* the samples written: the first sample of every dot-matrix pixel and its diagonal
\* neighbour
MarkPoints(s) ==
    {p \in {Point(x, y) : x \in 0..(s.width - 1), y \in 0..(s.height - 1)} :
        p.x % BrailePixel_WIDTH = p.y % BrailePixel_HEIGHT}

\* what is written: a sample switched on in either colour, or switched off with a colour
Marks == {[on |-> TRUE, color |-> violet], [on |-> TRUE, color |-> yellow],
          [on |-> FALSE, color |-> violet]}

\* the samples of s that differ from a cleared sample
marked(s) ==
    {p \in (0..(s.width - 1)) \X (0..(s.height - 1)) : s.content[p[2]][p[1]] # ColorCell_new}

\* the status bars: none, and "pep"
Statuses == {<<>>, <<112, 101, 112>>}

(***************************************************************************)
(* The state machine.  A behaviour starts from a framebuffer as Screen::new *)
(* leaves it, or from one already written by earlier draw calls, and makes *)
(* one call of the drawing interface; `last` records the call, its         *)
(* arguments and the state it was made in.                                 *)
(***************************************************************************)
\* the calls are made outside a run of main
NoMain == [pc |-> "none"]

NoTerminal == [raw_mode |-> FALSE]

InitScreens ==
    UNION {{Screen_new(t[1], t[2]), painted(Screen_new(t[1], t[2]))} : t \in TermSizes}

\* the camera as main constructs it: at the origin, no rotation.  Lengths are in
\* units of the viewport distance, and the field of view has tan(fov / 2) = 1/2.
InitCamera == Camera_new(Point3(0, 0, 0), 0, 0, 0, 1, 1, 2)

\* the same camera after a frame has posed it (coordinates, yaw, pitch), and with a roll
PosedCamera == Camera_new(Point3(1, 0, -1), 1, 0, 1, 1, 1, 2)

Init ==
    /\ screen \in InitScreens
    /\ camera = InitCamera
    /\ last = [op |-> "new"]
    /\ main = NoMain
    /\ terminal = NoTerminal

\* Screen::write_color
DoWriteColor ==
    /\ last.op = "new"
    /\ \E val \in BOOLEAN, point \in Samples(screen), color \in Colors :
        /\ screen' = write_color(screen, val, point, color)
        /\ last' = [op |-> "write_color", val |-> val, point |-> point,
                    color |-> color, before |-> screen]
        /\ UNCHANGED <<camera, main, terminal>>

\* Screen::line_color
DoLineColor ==
    /\ last.op = "new"
    /\ \E start \in Samples(screen), end \in Samples(screen), c \in ColorPairs :
        /\ screen' = line_color(screen, start, end, c[1], c[2])
        /\ last' = [op |-> "line_color", start |-> start, end |-> end,
                    start_color |-> c[1], end_color |-> c[2], before |-> screen]
        /\ UNCHANGED <<camera, main, terminal>>

\* Screen::line_color_clipped
DoLineColorClipped ==
    /\ last.op = "new"
    /\ \E start \in Samples(screen), end \in Samples(screen), c \in ColorPairs,
          clip \in Clips(screen) :
        /\ screen' = line_color_clipped(screen, start, end, c[1], c[2], clip)
        /\ last' = [op |-> "line_color_clipped", start |-> start, end |-> end,
                    start_color |-> c[1], end_color |-> c[2],
                    clip |-> clip, before |-> screen]
        /\ UNCHANGED <<camera, main, terminal>>

\* Screen::resize
DoResize ==
    /\ last.op = "new"
    /\ \E width \in 0..(screen.width + Margin), height \in 0..(screen.height + Margin) :
        /\ screen' = resize(screen, width, height)
        /\ last' = [op |-> "resize", width |-> width, height |-> height,
                    before |-> screen]
        /\ UNCHANGED <<camera, main, terminal>>

Next ==
    \/ DoWriteColor
    \/ DoLineColor
    \/ DoLineColorClipped
    \/ DoResize

Spec == Init /\ [][Next]_vars

(***************************************************************************)
(* The glyph packer's state machine: draw calls write a few samples of a   *)
(* framebuffer, and the frame is packed into its payload.                  *)
(***************************************************************************)
InitRender ==
    /\ screen \in RenderScreens
    /\ camera = InitCamera
    /\ last = [op |-> "new"]
    /\ main = NoMain
    /\ terminal = NoTerminal

\* Screen::write_color, as a draw call of the frame
DoMark ==
    /\ last.op # "render_with_status"
    /\ Cardinality(marked(screen)) < MaxMarks
    /\ \E point \in MarkPoints(screen), mark \in Marks :
        /\ screen' = write_color(screen, mark.on, point, mark.color)
        /\ last' = [op |-> "write_color", val |-> mark.on, point |-> point,
                    color |-> mark.color]
        /\ UNCHANGED <<camera, main, terminal>>

\* Screen::render_with_status
DoRenderWithStatus ==
    /\ last.op # "render_with_status"
    /\ \E T \in PixelTypes, status \in Statuses :
        /\ last' = [op |-> "render_with_status", T |-> T, status |-> status,
                    payload |-> render_with_status(screen, T, status)]
        /\ UNCHANGED <<screen, camera, main, terminal>>

NextRender ==
    \/ DoMark
    \/ DoRenderWithStatus

SpecRender == InitRender /\ [][NextRender]_vars

(***************************************************************************)
(* The camera's state machine: one call of the camera's drawing interface  *)
(* on a framebuffer already written by earlier draw calls.                 *)
(***************************************************************************)
InitCam ==
    /\ screen \in {painted(Screen_new(t[1], t[2])) : t \in TermSizes}
    /\ camera \in {InitCamera, PosedCamera}
    /\ last = [op |-> "new"]
    /\ main = NoMain
    /\ terminal = NoTerminal

\* Camera::edge_color
DoEdgeColor ==
    /\ last.op = "new"
    /\ \E start \in WorldPoints, end \in WorldPoints, c \in ColorPairs :
        /\ screen' = edge_color(screen, camera, start, end, c[1], c[2])
        /\ last' = [op |-> "edge_color", start |-> start, end |-> end,
                    start_color |-> c[1], end_color |-> c[2], before |-> screen]
        /\ UNCHANGED <<camera, main, terminal>>

\* Camera::write
DoWrite ==
    /\ last.op = "new"
    /\ \E val \in BOOLEAN, point \in WorldPoints :
        /\ screen' = Camera_write(screen, camera, val, point)
        /\ last' = [op |-> "write", val |-> val, point |-> point, before |-> screen]
        /\ UNCHANGED <<camera, main, terminal>>

\* Camera::plot_model_in_viewport
DoPlotModelInViewport ==
    /\ last.op = "new"
    /\ \E model \in ViewportModels, pose \in ViewportPoses, region \in Regions(screen) :
        LET result == plot_model_in_viewport(
                          screen, camera, model, pose.camera_pos, pose.yaw, pose.pitch,
                          region.viewport_x_offset, region.viewport_width,
                          region.viewport_height)
        IN /\ screen' = result.screen
           /\ camera' = result.camera
           /\ last' = [op |-> "plot_model_in_viewport", model |-> model, pose |-> pose,
                       region |-> region, before |-> screen, camera_before |-> camera]
           /\ UNCHANGED <<main, terminal>>

\* the multi-viewport branch of a frame of main: n copies of a model side by side
DoMultiViewport ==
    /\ last.op = "new"
    /\ \E n \in 2..MaxModels, pose \in ViewportPoses,
          model \in {m \in ViewportModels : m.position = Point3(0, 0, 0)} :
        LET models == [i \in 1..n |-> model]
            result == multi_viewport(screen, camera, models, pose)
        IN /\ screen' = result.screen
           /\ camera' = result.camera
           /\ last' = [op |-> "multi_viewport", models |-> models, pose |-> pose,
                       regions |-> viewport_regions(screen.width, screen.height, n),
                       before |-> screen, camera_before |-> camera]
           /\ UNCHANGED <<main, terminal>>

NextCam ==
    \/ DoEdgeColor
    \/ DoWrite
    \/ DoPlotModelInViewport
    \/ DoMultiViewport

SpecCamera == InitCam /\ [][NextCam]_vars

(***************************************************************************)
(* The projection's state machine: camera_to_screen is evaluated, again    *)
(* and again, on camera-space points in front of a camera whose field of   *)
(* view has tan(fov / 2) = 2/5, over a framebuffer of 100 x 100 samples    *)
(* (a terminal of 50 columns and 26 rows).                                 *)
(***************************************************************************)
\* camera-space points tried: x within MaxOffAxis of the axis, y within 1, z up to MaxDepth
MaxOffAxis == 2
MaxDepth == 5

ProjectPoints ==
    {[x |-> x, y |-> y, z |-> z, d |-> 1] :
        x \in (-MaxOffAxis)..MaxOffAxis, y \in {-1, 0, 1}, z \in 1..MaxDepth}

InitProject ==
    /\ screen = Screen_new(50, 26)
    /\ camera = Camera_new(Point3(0, 0, 0), 0, 0, 0, 1, 2, 5)
    /\ last = [op |-> "new"]
    /\ main = NoMain
    /\ terminal = NoTerminal

\* Camera::camera_to_screen; `again` tells that the evaluation before this one was of
\* the same point, and `previous` then holds what it gave
DoCameraToScreen ==
    \E point \in ProjectPoints :
        /\ last' = [op |-> "camera_to_screen", point |-> point,
                    result |-> camera_to_screen(camera, screen, point),
                    again |-> last.op = "camera_to_screen" /\ last.point = point,
                    previous |-> IF last.op = "camera_to_screen" /\ last.point = point
                                 THEN <<last.result>> ELSE <<>>]
        /\ UNCHANGED <<screen, camera, main, terminal>>

NextProject == DoCameraToScreen

SpecProject == InitProject /\ [][NextProject]_vars

(***************************************************************************)
(* The viewer's state machine: main from the parsed arguments to the exit. *)
(* `main` holds the position in main, its locals, and a log of the frame   *)
(* under way (its phases, the events handled, the camera positions used,   *)
(* the buffers written); `terminal` holds the terminal's modes, the input  *)
(* events it holds unread, and the number of frames written to it.         *)
(* terminal::size() reports any of TermSizes at each call.                 *)
(* The projection of the models at the frame's pose is not computed here   *)
(* (SpecCamera explores it): each model projects to one of FrameEdges.     *)
(***************************************************************************)
\* frames run, and input events received, in a run
MaxFrames == 2
MaxEvents == 2

\* one input ("1CRN"), and two inputs ("1CRN", "4HHB") shown side by side
Loads ==
    {Loaded(<<<<49, 67, 82, 78>>>>, <<Point3(0, 0, 0)>>, <<rat(5, 1)>>),
     Loaded(<<<<49, 67, 82, 78>>, <<52, 72, 72, 66>>>>,
            <<Point3(0, 0, 0), Point3(4, 0, 0)>>, <<rat(5, 1), rat(10, 1)>>)}

\* the input events tried: the keys q, Ctrl+C, c, r, 0; a mouse button pressed at (0,0)
\* and a drag to (1,1), each with and without Shift; the wheel both ways
Events ==
    {KeyEvent("q", "NONE"), KeyEvent("c", "CONTROL"), KeyEvent("c", "NONE"),
     KeyEvent("r", "NONE"), KeyEvent("0", "NONE"),
     MouseEvent("Down", 0, 0, "NONE"), MouseEvent("Down", 0, 0, "SHIFT"),
     MouseEvent("Drag", 1, 1, "NONE"), MouseEvent("Drag", 1, 1, "SHIFT"),
     MouseEvent("ScrollUp", 0, 0, "NONE"), MouseEvent("ScrollDown", 0, 0, "NONE")}

\* what the edges of a model project to: nothing to draw, or the frame's rising
\* diagonal, or the line across the frame followed by the same line drawn back from
\* its other end
FrameEdges(s) ==
    {<<[draw |-> FALSE]>>,
     <<[draw |-> TRUE, start |-> Point(0, s.height - 1), end |-> Point(s.width - 1, 0),
        start_color |-> yellow, end_color |-> violet]>>,
     <<[draw |-> TRUE, start |-> Point(-1, -1), end |-> Point(s.width, s.height),
        start_color |-> violet, end_color |-> yellow],
       [draw |-> TRUE, start |-> Point(s.width, s.height), end |-> Point(-1, -1),
        start_color |-> violet, end_color |-> yellow]>>}

\* what a frame finds in the framebuffer the frame before left: its size, and whether
\* its first cell is on
found_in(s) ==
    [width |-> s.width, height |-> s.height,
     first_on |-> s.width > 0 /\ s.height > 0 /\ s.content[0][0].on]

\* the loop over the edges of a model in Camera::plot_model_colored_edges
RECURSIVE edges_draw(_, _)
edges_draw(s, segs) ==
    IF segs = <<>> THEN s ELSE edges_draw(edge_draw(s, Head(segs)), Tail(segs))

\* the loop over the edges of a model in Camera::plot_model_in_viewport
RECURSIVE viewport_draws(_, _, _)
viewport_draws(s, segs, clip) ==
    IF segs = <<>> THEN s
    ELSE viewport_draws(viewport_draw(s, Head(segs), clip), Tail(segs), clip)

\* the calls of Screen::line_color (clip <<>>) or Screen::line_color_clipped (clip
\* <<clip>>) that drawing the segments makes, in order
RECURSIVE line_calls(_, _)
line_calls(segs, clip) ==
    IF segs = <<>> THEN <<>>
    ELSE (IF Head(segs).draw THEN <<[seg |-> Head(segs), clip |-> clip]>> ELSE <<>>)
         \o line_calls(Tail(segs), clip)

\* main after parse_args and the loading of the models, before the terminal is touched;
\* until Camera::new the framebuffer is an empty one
InitMain ==
    /\ screen = Screen_new(0, 0)
    /\ camera = InitCamera
    /\ last = [op |-> "new"]
    /\ \E loaded \in Loads :
        main = [pc |-> "loaded", loaded |-> loaded,
                view |-> initial_view(loaded, "coolwarm"),
                frame |-> 0, events |-> 0, i |-> 0, trace |-> <<>>,
                handled |-> <<>>, frame_view |-> initial_view(loaded, "coolwarm"),
                positions |-> <<>>, writes |-> <<>>, unread |-> 0, exit_code |-> -1,
                drawn |-> <<>>, found |-> found_in(Screen_new(0, 0))]
    /\ terminal = cooked_terminal

at(pc) == main.pc = pc

goto(m, pc, phase) == [m EXCEPT !.pc = pc, !.trace = Append(@, phase)]

\* terminal::enable_raw_mode
EnableRawMode ==
    /\ at("loaded")
    /\ main' = [main EXCEPT !.pc = "raw"]
    /\ terminal' = [terminal EXCEPT !.raw_mode = TRUE, !.was_raw = TRUE]
    /\ UNCHANGED <<screen, camera, last>>

\* execute!(EnterAlternateScreen, Hide, EnableMouseCapture, Clear)
EnterAlternateScreen ==
    /\ at("raw")
    /\ main' = [main EXCEPT !.pc = "camera"]
    /\ terminal' = [terminal EXCEPT !.alternate_screen = TRUE, !.cursor_hidden = TRUE,
                                    !.mouse_capture = TRUE]
    /\ UNCHANGED <<screen, camera, last>>

\* Camera::new, with the Screen::new in it, and the initial values of the view
NewCamera ==
    /\ at("camera")
    /\ \E size \in TermSizes :
        /\ screen' = Screen_new(size[1], size[2])
        /\ camera' = InitCamera
        /\ main' = [main EXCEPT !.pc = "fit", !.view = initial_view(main.loaded, @.color_scheme)]
        /\ UNCHANGED <<last, terminal>>

\* the fit_to_terminal, clear and sleep before the frame loop
FirstFit ==
    /\ at("fit")
    /\ \E size \in TermSizes :
        /\ screen' = clear(fit_to_terminal(screen, "BrailePixel", size[1], size[2]))
        /\ main' = [main EXCEPT !.pc = "loop"]
        /\ UNCHANGED <<camera, last, terminal>>

\* the top of an iteration of the frame loop; the log of the frame starts empty, and
\* `found` tells what the frame before left in the framebuffer
BeginFrame ==
    /\ at("loop")
    /\ main.frame < MaxFrames
    /\ main' = [main EXCEPT !.pc = "poll", !.frame = @ + 1,
                            !.view = begin_frame(@), !.frame_view = begin_frame(main.view),
                            !.trace = <<>>, !.handled = <<>>, !.positions = <<>>,
                            !.writes = <<>>, !.drawn = <<>>, !.found = found_in(screen)]
    /\ UNCHANGED <<screen, camera, last, terminal>>

\* the user: an input event reaches the terminal while main polls
Input ==
    /\ at("poll")
    /\ main.events < MaxEvents
    /\ \E event \in Events :
        /\ terminal' = [terminal EXCEPT !.pending = Append(@, event)]
        /\ main' = [main EXCEPT !.events = @ + 1]
        /\ UNCHANGED <<screen, camera, last>>

\* event::poll returns true: one turn of the event loop, which ends in graceful_close
\* for a quit
HandleEvent ==
    /\ at("poll")
    /\ terminal.pending # <<>>
    /\ LET event == Head(terminal.pending)
           read == [terminal EXCEPT !.pending = Tail(@)]
       IN IF is_quit(event)
          THEN /\ terminal' = graceful_close(read)
               /\ main' = [goto(main, "exited", "quit") EXCEPT !.exit_code = 0,
                                                            !.handled = Append(@, event)]
          ELSE /\ terminal' = read
               /\ main' = [goto(main, "poll", "event") EXCEPT
                              !.view = handle_event(@, main.loaded, screen.width, event),
                              !.handled = Append(@, event)]
    /\ UNCHANGED <<screen, camera, last>>

\* event::poll(0 s) returns false: no event is pending
\* the poll that may return false while an event is pending
poll_false_any(t) == TRUE

poll_false(t) == t.pending = <<>>

\* event::poll returns false: the event loop ends; `unread` is the number of events
\* the terminal still holds
EndPoll ==
    /\ at("poll")
    /\ poll_false(terminal)
    /\ main' = [goto(main, "pose", "drained") EXCEPT !.unread = Len(terminal.pending)]
    /\ UNCHANGED <<screen, camera, last, terminal>>

\* the reset of an idle frame and the pose update
UpdatePose ==
    /\ at("pose")
    /\ main' = [goto(main, "fit_to_terminal", "pose") EXCEPT
                   !.view = update_pose(settle(@), main.loaded, camera)]
    /\ UNCHANGED <<screen, camera, last, terminal>>

\* camera.screen.fit_to_terminal::<BrailePixel>() of the frame
FitToTerminal ==
    /\ at("fit_to_terminal")
    /\ \E size \in TermSizes :
        /\ screen' = fit_to_terminal(screen, "BrailePixel", size[1], size[2])
        /\ main' = goto(main, "clear", "fit")
        /\ UNCHANGED <<camera, last, terminal>>

\* camera.screen.clear() of the frame
Clear ==
    /\ at("clear")
    /\ screen' = clear(screen)
    /\ main' = [goto(main, "draw", "clear") EXCEPT !.i = 1]
    /\ UNCHANGED <<camera, last, terminal>>

\* the single-model branch: the camera is posed and the model's edges are drawn
DrawModel ==
    /\ at("draw")
    /\ main.loaded.num_models = 1
    /\ \E segs \in FrameEdges(screen) :
        LET cam_pos == single_camera_pos(main.view)
        IN /\ camera' = [camera EXCEPT !.coordinates = cam_pos,
                                       !.yaw = rat_sub(rat(0, 1), main.view.view_yaw),
                                       !.pitch = rat_sub(rat(0, 1), main.view.view_pitch)]
           /\ screen' = edges_draw(screen, segs)
           /\ main' = [goto(main, "render", "draw") EXCEPT
                          !.positions = Append(@, cam_pos),
                          !.drawn = @ \o line_calls(segs, <<>>)]
           /\ UNCHANGED <<last, terminal>>

\* the multi-viewport branch: one turn of its loop, model i in its column of the frame;
\* plot_model_in_viewport leaves the camera as it found it
DrawViewport ==
    /\ at("draw")
    /\ main.loaded.num_models # 1
    /\ \E segs \in FrameEdges(screen) :
        LET viewport_width == screen.width \div main.loaded.num_models
            full_height == screen.height
            camera_pos == viewport_camera_pos(main.view, main.loaded,
                                              screen.width, screen.height, main.i)
            clip == viewport_clip((main.i - 1) * viewport_width,
                                  viewport_width, full_height)
        IN /\ screen' = viewport_draws(screen, segs, clip)
           /\ main' = [goto(main, IF main.i = main.loaded.num_models
                                  THEN "render" ELSE "draw", "draw") EXCEPT
                          !.i = @ + 1, !.positions = Append(@, camera_pos),
                          !.drawn = @ \o line_calls(segs, <<clip>>)]
           /\ UNCHANGED <<camera, last, terminal>>

\* the status line and render_with_status::<BrailePixel>: the frame goes to the
\* terminal in one write_all
Render ==
    /\ at("render")
    /\ \E size \in TermSizes :
        LET status == final_msg(size[1], status_texts(main.loaded.inputs, main.view))
        IN /\ terminal' = [terminal EXCEPT !.frames = @ + 1]
           /\ main' = [goto(main, "sleep", "write") EXCEPT
                          !.writes = Append(@, render_with_status(screen, "BrailePixel",
                                                                  status))]
           /\ UNCHANGED <<screen, camera, last>>

\* the sleep that ends the frame
Sleep ==
    /\ at("sleep")
    /\ main' = goto(main, "loop", "sleep")
    /\ UNCHANGED <<screen, camera, last, terminal>>

\* a terminal call fails and its unwrap panics: enable_raw_mode, the execute! after it,
\* the execute! of Screen::new, event::poll, or the terminal::size() of the status line.
\* The hook runs and the process ends.
Panic ==
    /\ main.pc \in {"loaded", "raw", "camera", "poll", "render"}
    /\ terminal' = panic_hook(terminal)
    /\ main' = [goto(main, "exited", "panic") EXCEPT !.exit_code = 101]
    /\ UNCHANGED <<screen, camera, last>>

NextMain ==
    \/ EnableRawMode
    \/ EnterAlternateScreen
    \/ NewCamera
    \/ FirstFit
    \/ BeginFrame
    \/ Input
    \/ HandleEvent
    \/ EndPoll
    \/ UpdatePose
    \/ FitToTerminal
    \/ Clear
    \/ DrawModel
    \/ DrawViewport
    \/ Render
    \/ Sleep
    \/ Panic

SpecMain == InitMain /\ [][NextMain]_vars

(***************************************************************************)
(* The colour schemes' state machine: a viewer started with any scheme     *)
(* (--color) handles presses of the key c, and the name of the scheme in   *)
(* force is parsed back with from_str, as --color does.                    *)
(***************************************************************************)
\* presses of c in a run
MaxPresses == 14

\* the enum ColorScheme
ColorSchemes ==
    {"rainbow", "blues", "greens", "reds", "oranges", "purples", "viridis", "plasma",
     "magma", "inferno", "coolwarm", "spectral", "white"}

\* a name as it is, and with its first letter in upper case
Spellings(chars) == {chars, [chars EXCEPT ![1] = @ - 32]}

InitColor ==
    /\ screen = Screen_new(0, 0)
    /\ camera = InitCamera
    /\ \E scheme \in ColorSchemes :
        last = [op |-> "new", start |-> scheme, presses |-> 0, visited |-> <<>>,
                text |-> <<>>, parsed |-> <<>>,
                view |-> initial_view(CHOOSE loaded \in Loads : loaded.num_models = 1,
                                      scheme)]
    /\ main = NoMain
    /\ terminal = NoTerminal

\* the key arm of the event loop, for the key c
PressC ==
    /\ last.presses < MaxPresses
    /\ LET loaded == CHOOSE loaded \in Loads : loaded.num_models = 1
           view == handle_key(last.view, loaded, KeyEvent("c", "NONE"))
       IN last' = [last EXCEPT !.op = "c", !.presses = @ + 1, !.view = view,
                               !.visited = Append(@, view.color_scheme)]
    /\ UNCHANGED <<screen, camera, main, terminal>>

\* ColorScheme::from_str of a spelling of the name of the scheme in force
FromStr ==
    /\ last.op # "from_str"
    /\ \E text \in Spellings(ColorScheme_name(last.view.color_scheme)) :
        last' = [last EXCEPT !.op = "from_str", !.text = text,
                             !.parsed = ColorScheme_from_str(text)]
    /\ UNCHANGED <<screen, camera, main, terminal>>

NextColor ==
    \/ PressC
    \/ FromStr

SpecColor == InitColor /\ [][NextColor]_vars

(***************************************************************************)
(* The line loop's state machine: one call of Screen::line_color or        *)
(* Screen::line_color_clipped, taken one loop iteration at a time.  The    *)
(* samples the loop visits are kept in last.path.  Where an operation      *)
(* leaves the i32 range the build decides: a debug build panics, a release *)
(* build goes on with the wrapped value.                                   *)
(***************************************************************************)
\* how far outside the framebuffer the end points of the short lines lie
MaxReach == 1

\* the iterations followed of a loop that has not returned
MaxIterations == 12

\* the sample points of the short lines, in and around the framebuffer s
LinePoints(s) ==
    {Point(x, y) : x \in (-MaxReach)..(s.width - 1 + MaxReach),
                   y \in (-MaxReach)..(s.height - 1 + MaxReach)}

\* lines between far-apart i32 points, all of them off the framebuffer's rows
FarLines ==
    {<<Point(-1, -1), Point(1073741824, -1)>>,
     <<Point(i32_MIN, -1), Point(i32_MAX, -1)>>,
     <<Point(-1, -1), Point(-1, i32_MAX)>>}

Lines(s) == (LinePoints(s) \X LinePoints(s)) \cup FarLines

\* the clip region of the clipped calls: the framebuffer without its first column and row
LineClip(s) == Clip(1, s.width, 1, s.height)

\* what the build makes of an operation that leaves the i32 range
overflow_outcomes(overflows) == IF overflows THEN {"panic", "wrap"} ELSE {"ok"}

InitLine ==
    /\ screen = Screen_new(2, 2)
    /\ camera = InitCamera
    /\ last = [op |-> "new"]
    /\ main = NoMain
    /\ terminal = NoTerminal

\* the call as far as the loop: the deltas, the steps and the error term
line_call(op, start, end, outcome) ==
    LET ln == line_setup(start, end, violet, yellow)
    IN [op |-> op, start |-> start, end |-> end, clip |-> LineClip(screen),
        ln |-> ln, it |-> line_start(start, ln), path |-> <<>>,
        status |-> IF outcome = "panic" THEN "panicked" ELSE "loop",
        wrapped |-> outcome = "wrap"]

\* Screen::line_color, up to the loop
BeginLineColor ==
    /\ last.op = "new"
    /\ \E line \in Lines(screen) :
       \E outcome \in overflow_outcomes(line_setup_overflows(line[1], line[2])) :
          last' = line_call("line_color", line[1], line[2], outcome)
    /\ UNCHANGED <<screen, camera, main, terminal>>

\* Screen::line_color_clipped, up to the loop
BeginLineColorClipped ==
    /\ last.op = "new"
    /\ \E line \in Lines(screen) :
       \E outcome \in overflow_outcomes(line_setup_overflows(line[1], line[2])) :
          last' = line_call("line_color_clipped", line[1], line[2], outcome)
    /\ UNCHANGED <<screen, camera, main, terminal>>

\* one iteration of the loop: the sample, the test for the end point, the error update
Iterate ==
    /\ last.op \in {"line_color", "line_color_clipped"}
    /\ last.status = "loop"
    /\ Len(last.path) < MaxIterations
    /\ LET ln == last.ln
           it == last.it
           color == lerp_color(ln.start_color, ln.end_color, it.step, ln.total_steps)
           drawn == last.op = "line_color" \/ in_clip(it.x, it.y, last.clip)
           path == Append(last.path, Point(it.x, it.y))
       IN /\ screen' = IF drawn THEN write_color(screen, TRUE, Point(it.x, it.y), color)
                       ELSE screen
          /\ IF it.x = ln.end.x /\ it.y = ln.end.y
             THEN last' = [last EXCEPT !.path = path, !.status = "returned"]
             ELSE \E outcome \in overflow_outcomes(line_advance_overflows(ln, it)) :
                    last' = [last EXCEPT
                                !.path = path,
                                !.it = line_advance(ln, it),
                                !.status = IF outcome = "panic" THEN "panicked" ELSE "loop",
                                !.wrapped = last.wrapped \/ outcome = "wrap"]
    /\ UNCHANGED <<camera, main, terminal>>

NextLine ==
    \/ BeginLineColor
    \/ BeginLineColorClipped
    \/ Iterate

SpecLine == InitLine /\ [][NextLine]_vars

(***************************************************************************)
(* The state machine of the fit: Screen::new and then, or at once on a     *)
(* framebuffer of one block, Screen::fit_to_terminal, each for a terminal  *)
(* that reports any of FitSizes.  Where the u16 arithmetic leaves its      *)
(* range a debug build panics and a release build goes on with the wrapped *)
(* value.                                                                  *)
(***************************************************************************)
\* the ordinary terminal sizes tried have up to MaxFitCols columns and MaxFitRows rows
MaxFitCols == 3
MaxFitRows == 3

\* the sizes terminal::size() reports: ordinary ones, 0 columns, 0 rows, and the first
\* sizes whose sample counts do not fit u16
FitSizes ==
    ((0..MaxFitCols) \X (1..MaxFitRows))
    \cup ((0..1) \X {0, 16385, 32769})
    \cup ({32768, 32769} \X (1..MaxFitRows))

InitFit ==
    /\ screen = Screen_new(1, 2)
    /\ camera = InitCamera
    /\ last = [op |-> "new"]
    /\ main = NoMain
    /\ terminal = NoTerminal

\* Screen::new
DoScreenNew ==
    /\ last.op = "new"
    /\ \E size \in FitSizes :
       \E outcome \in overflow_outcomes(Screen_new_overflows(size[1], size[2])) :
          /\ screen' = IF outcome = "panic" THEN screen ELSE Screen_new(size[1], size[2])
          /\ last' = [op |-> "Screen_new", terminal_width |-> size[1],
                      terminal_height |-> size[2],
                      status |-> IF outcome = "panic" THEN "panicked" ELSE "returned"]
    /\ UNCHANGED <<camera, main, terminal>>

\* Screen::fit_to_terminal::<T>
DoFitToTerminal ==
    /\ \/ last.op = "new"
       \/ last.op = "Screen_new" /\ last.status = "returned"
    /\ \E T \in PixelTypes, size \in FitSizes :
       \E outcome \in overflow_outcomes(fit_to_terminal_overflows(T, size[1], size[2])) :
          /\ screen' = IF outcome = "panic" THEN screen
                       ELSE fit_to_terminal(screen, T, size[1], size[2])
          /\ last' = [op |-> "fit_to_terminal", T |-> T, terminal_width |-> size[1],
                      terminal_height |-> size[2],
                      status |-> IF outcome = "panic" THEN "panicked" ELSE "returned"]
    /\ UNCHANGED <<camera, main, terminal>>

NextFit ==
    \/ DoScreenNew
    \/ DoFitToTerminal

SpecFit == InitFit /\ [][NextFit]_vars

(***************************************************************************)
(* model.rs: the search.  A text is a sequence of characters, a character  *)
(* a string of length one, and an offset counts characters from 0 as a     *)
(* byte offset does in ASCII text.                                         *)
(***************************************************************************)
QUOTE == "\""

\* the pattern "\"identifier\""
identifier_key == <<QUOTE, "i", "d", "e", "n", "t", "i", "f", "i", "e", "r", QUOTE>>

\* &text[from..]
slice_from(text, from) == SubSeq(text, from + 1, Len(text))

\* &text[..to]
slice_to(text, to) == SubSeq(text, 1, to)

\* &text[from..] panics when from is past the end of text
slice_from_panics(text, from) == from > Len(text)

\* str::find: the offset of the first occurrence of pat in text
find(text, pat) ==
    LET hits == {i \in 0..(Len(text) - Len(pat)) : SubSeq(text, i + 1, i + Len(pat)) = pat}
    IN  IF hits = {} THEN None
        ELSE Some(CHOOSE i \in hits : \A j \in hits : i <= j)

\* char::is_alphanumeric, on the characters the texts are made of
is_alphanumeric(c) ==
    c \in {"0", "1", "2", "3", "4", "5", "6", "7", "8", "9",
           "A", "B", "C", "D", "E", "F", "G", "H", "I", "J", "K", "L", "M",
           "N", "O", "P", "Q", "R", "S", "T", "U", "V", "W", "X", "Y", "Z",
           "a", "b", "c", "d", "e", "f", "g", "h", "i", "j", "k", "l", "m",
           "n", "o", "p", "q", "r", "s", "t", "u", "v", "w", "x", "y", "z"}

\* pdb_id.len() == 4 && pdb_id.chars().all(|c| c.is_alphanumeric())
is_pdb_id(pdb_id) ==
    Len(pdb_id) = 4 /\ \A i \in 1..Len(pdb_id) : is_alphanumeric(pdb_id[i])

PdbSearchResult(pdb_id, title) == [pdb_id |-> pdb_id, title |-> title]

\* the scan of parse_search_results before its first iteration
scan_start == [pos |-> 0, results |-> <<>>, scanning |-> TRUE]

\* one iteration of the while loop of parse_search_results on the text json, from the
\* scan sc: the loop ends when a find fails, and goes on from the new pos otherwise
scan_iteration(json, sc) ==
    LET stop == [sc EXCEPT !.scanning = FALSE]
        id_start == find(slice_from(json, sc.pos), identifier_key)
    IN  IF id_start = None THEN stop
        ELSE
        LET abs_pos == sc.pos + id_start[1]
            rest == slice_from(json, abs_pos)
            colon_pos == find(rest, <<":">>)
        IN  IF colon_pos = None THEN stop
            ELSE
            LET after_colon == slice_from(rest, colon_pos[1] + 1)
                quote_start == find(after_colon, <<QUOTE>>)
            IN  IF quote_start = None THEN stop
                ELSE
                LET value_start == slice_from(after_colon, quote_start[1] + 1)
                    quote_end == find(value_start, <<QUOTE>>)
                IN  IF quote_end = None THEN stop
                    ELSE
                    LET pdb_id == slice_to(value_start, quote_end[1])
                    IN  [pos |-> abs_pos + id_start[1] + colon_pos[1]
                                     + quote_start[1] + quote_end[1] + 2,
                         results |-> IF is_pdb_id(pdb_id)
                                     THEN Append(sc.results, PdbSearchResult(pdb_id, <<>>))
                                     ELSE sc.results,
                         scanning |-> TRUE]

\* the second loop of parse_search_results: every result takes the title
\* fetch_pdb_title answered for it, and keeps its empty title when the fetch failed
with_titles(results, titles) ==
    [i \in 1..Len(results) |->
        IF titles[i] = None THEN results[i]
        ELSE PdbSearchResult(results[i].pdb_id, titles[i][1])]

(***************************************************************************)
(* The state machine of the search: parse_search_results on a response     *)
(* made of up to MaxTokens pieces of JSON text and a tail, one iteration   *)
(* of its scan at a time, and then the titles.  Slicing the text from a    *)
(* position past its end panics.                                           *)
(***************************************************************************)
\* a response is made of up to MaxTokens pieces
MaxTokens == 3

\* the pieces: an opening brace, the text between two entries, and entries whose
\* value is a PDB id, too short or not alphanumeric
Tokens ==
    { <<"{">>,
      <<"}", ",", "{">>,
      identifier_key \o <<":", QUOTE, "1", "A", "B", "C", QUOTE>>,
      identifier_key \o <<":", QUOTE, "2", "X", "Y", "Z", QUOTE>>,
      identifier_key \o <<":", QUOTE, "1", "A", "B", QUOTE>>,
      identifier_key \o <<":", QUOTE, "1", "-", "B", "C", QUOTE>> }

\* how a response ends: whole, or cut off after a key, after its colon or inside its
\* value
Tails ==
    { <<>>,
      identifier_key,
      identifier_key \o <<":">>,
      identifier_key \o <<":", QUOTE, "1", "A">> }

RECURSIVE concat(_)
\* the text made of the pieces in order
concat(pieces) ==
    IF pieces = <<>> THEN <<>> ELSE Head(pieces) \o concat(Tail(pieces))

Responses ==
    UNION {{concat(pieces) \o tail : pieces \in [1..n -> Tokens], tail \in Tails}
               : n \in 0..MaxTokens}

\* what fetch_pdb_title answers: an error, or a title
Titles == {None, Some(<<>>), Some(<<"T">>)}

InitSearch ==
    /\ screen = Screen_new(0, 0)
    /\ camera = InitCamera
    /\ \E json \in Responses :
          last = [op |-> "parse_search_results", json |-> json, pos |-> 0,
                  results |-> <<>>, status |-> "scanning"]
    /\ main = NoMain
    /\ terminal = NoTerminal

\* one evaluation of the loop condition of parse_search_results, and the iteration
\* that follows it
ScanIteration ==
    /\ last.op = "parse_search_results"
    /\ last.status = "scanning"
    /\ IF slice_from_panics(last.json, last.pos)
       THEN last' = [last EXCEPT !.status = "panicked"]
       ELSE LET sc == scan_iteration(last.json,
                          [pos |-> last.pos, results |-> last.results, scanning |-> TRUE])
            IN  last' = [last EXCEPT !.pos = sc.pos, !.results = sc.results,
                                     !.status = IF sc.scanning THEN "scanning"
                                                ELSE "fetching"]
    /\ UNCHANGED <<screen, camera, main, terminal>>

\* the titles, and the return
FetchTitles ==
    /\ last.op = "parse_search_results"
    /\ last.status = "fetching"
    /\ \E titles \in [1..Len(last.results) -> Titles] :
          last' = [last EXCEPT !.results = with_titles(last.results, titles),
                               !.status = "returned"]
    /\ UNCHANGED <<screen, camera, main, terminal>>

NextSearch ==
    \/ ScanIteration
    \/ FetchTitles

SpecSearch == InitSearch /\ [][NextSearch]_vars

(***************************************************************************)
(* Properties of the framebuffer calls, checked under Spec.                *)
(***************************************************************************)
\* the cell of framebuffer s at a sample point inside it
cell_at(s, point) == s.content[point.y][point.x]

\* the framebuffers s and b have the same dimensions and the same cells except,
\* possibly, at the sample points of `where`
same_outside(s, b, where) ==
    /\ s.width = b.width
    /\ s.height = b.height
    /\ \A y \in 0..(b.height - 1), x \in 0..(b.width - 1) :
          Point(x, y) \notin where => s.content[y][x] = b.content[y][x]

\* the k-th point of the Bresenham path from start to end, in closed form: k steps
\* along the longer axis and the nearest whole number of steps (halves up) along the other
bresenham_point(start, end, k) ==
    LET dx == abs(end.x - start.x)
        dy == abs(end.y - start.y)
        sx == IF start.x < end.x THEN 1 ELSE -1
        sy == IF start.y < end.y THEN 1 ELSE -1
        n == max(dx, dy)
        minor == IF n = 0 THEN 0 ELSE (2 * k * min(dx, dy) + n) \div (2 * n)
    IN IF dx >= dy
       THEN Point(start.x + sx * k, start.y + sy * minor)
       ELSE Point(start.x + sx * minor, start.y + sy * k)

\* the full Bresenham path from start to end
bresenham_path(start, end) ==
    {bresenham_point(start, end, k) :
        k \in 0..max(abs(end.x - start.x), abs(end.y - start.y))}

\* C7: after line_color between two distinct in-bounds points the cell at start is on
\* with exactly start_color and the cell at end is on with exactly end_color.
C7_EndpointsKeepTheirColours ==
    (/\ last.op = "line_color"
     /\ in_bounds(last.before, last.start)
     /\ in_bounds(last.before, last.end)
     /\ last.start # last.end)
    => /\ cell_at(screen, last.start) = [on |-> TRUE, color |-> last.start_color]
       /\ cell_at(screen, last.end) = [on |-> TRUE, color |-> last.end_color]

\* C8: line_color_clipped with the region x_min = 0, x_max = width, y_min = 0,
\* y_max = height leaves the framebuffer exactly as line_color with the same
\* arguments does, from every framebuffer state and for points in or out of bounds.
C8_FullRegionClipEqualsLineColor ==
    (/\ last.op = "line_color_clipped"
     /\ last.clip = Clip(0, last.before.width, 0, last.before.height))
    => screen = line_color(last.before, last.start, last.end,
                           last.start_color, last.end_color)

\* a clipped line over the whole framebuffer that starts outside it, ends on its
\* first row and changes a framebuffer that was already written
C8_Witness ==
    /\ last.op = "line_color_clipped"
    /\ last.clip = Clip(0, last.before.width, 0, last.before.height)
    /\ ~in_bounds(last.before, last.start)
    /\ in_bounds(last.before, last.end)
    /\ last.end.y = 0
    /\ \E y \in 0..(last.before.height - 1), x \in 0..(last.before.width - 1) :
          last.before.content[y][x].on
    /\ screen # last.before

\* C9: write_color with 0 <= x < width and 0 <= y < height sets exactly the cell
\* (x, y) to {on: val, color} and leaves every other cell unchanged, the cells with
\* x = 0 or y = 0 included; with any other coordinates it changes nothing.
C9_WriteColorIsBoundsChecked ==
    last.op = "write_color" =>
        LET b == last.before
            p == last.point
            inside == 0 <= p.x /\ p.x < b.width /\ 0 <= p.y /\ p.y < b.height
        IN IF inside
           THEN /\ same_outside(screen, b, {p})
                /\ cell_at(screen, p) = [on |-> last.val, color |-> last.color]
           ELSE screen = b

\* a write to the corner cell (0, 0) that changed it
C9_Witness ==
    /\ last.op = "write_color"
    /\ last.point = Point(0, 0)
    /\ last.before.height > 0
    /\ cell_at(screen, last.point) = [on |-> last.val, color |-> last.color]
    /\ cell_at(screen, last.point) # cell_at(last.before, last.point)

\* C10: line_color does not stop when the line leaves the framebuffer: the cells it
\* turns on are exactly the points of the full Bresenham path from start to end that
\* lie inside the framebuffer, and no other cell changes.
C10_LineWritesEveryInBoundsPathPoint ==
    last.op = "line_color" =>
        LET path == bresenham_path(last.start, last.end)
        IN /\ same_outside(screen, last.before, path)
           /\ \A p \in path : in_bounds(last.before, p) => cell_at(screen, p).on

\* a line that starts outside the framebuffer, crosses it and ends outside it again,
\* with a sample written inside
C10_Witness ==
    /\ last.op = "line_color"
    /\ ~in_bounds(last.before, last.start)
    /\ ~in_bounds(last.before, last.end)
    /\ \E p \in bresenham_path(last.start, last.end) :
          /\ in_bounds(last.before, p)
          /\ cell_at(screen, p).on
          /\ ~cell_at(last.before, p).on

\* C15: resize to the current width and height changes nothing, also when called twice
\* in a row; resize to any other width or height leaves exactly height rows of exactly
\* width cells, every one of them off and white
C15_ResizeSameKeepsElseFresh ==
    last.op = "resize" =>
        IF last.width = last.before.width /\ last.height = last.before.height
        THEN /\ screen = last.before
             /\ resize(screen, last.width, last.height) = last.before
        ELSE /\ screen.width = last.width
             /\ screen.height = last.height
             /\ DOMAIN screen.content = 0..(last.height - 1)
             /\ \A y \in DOMAIN screen.content :
                    /\ DOMAIN screen.content[y] = 0..(last.width - 1)
                    /\ \A x \in DOMAIN screen.content[y] :
                           screen.content[y][x] = [on |-> FALSE, color |-> white]

\* a framebuffer with a sample on has been resized to another, non-empty size
C15_Witness ==
    /\ last.op = "resize"
    /\ \E y \in DOMAIN last.before.content :
           \E x \in DOMAIN last.before.content[y] : last.before.content[y][x].on
    /\ last.width # last.before.width
    /\ last.height = last.before.height
    /\ last.width > 0

(***************************************************************************)
(* Properties of the camera calls, checked under SpecCamera.               *)
(***************************************************************************)
\* the camera as the last plot_model_in_viewport posed it for its loop
posed_camera ==
    [last.camera_before EXCEPT !.coordinates = last.pose.camera_pos,
                               !.yaw = last.pose.yaw,
                               !.pitch = last.pose.pitch]

\* the sample points of the region [off, off + w) x [0, h)
region_points(off, w, h) ==
    {Point(x, y) : x \in off..(off + w - 1), y \in 0..(h - 1)}

\* camera-space z < viewport_distance
z_behind(cam, p) == p.z < cam.viewport_distance * p.d

\* C1: plot_model_in_viewport writes no sample outside
\* [column_offset, column_offset + column_width) x [0, row_height): every cell outside
\* that rectangle is on/off and coloured after the call as it was before.
C1_ViewportWritesStayInRegion ==
    last.op = "plot_model_in_viewport" =>
        same_outside(screen, last.before,
                     region_points(last.region.viewport_x_offset,
                                   last.region.viewport_width,
                                   last.region.viewport_height))

\* a one-edge model drawn into a region, the edge ending on a sample that is inside the
\* framebuffer but outside the region, and the framebuffer changed by the call
C1_Witness ==
    /\ last.op = "plot_model_in_viewport"
    /\ Len(last.model.colored_edges) = 1
    /\ LET r == last.region
           seg == viewport_segment(posed_camera, last.model, last.model.colored_edges[1],
                                   r.viewport_x_offset, r.viewport_width, r.viewport_height)
       IN /\ seg.draw
          /\ in_bounds(last.before, seg.end)
          /\ seg.end \notin region_points(r.viewport_x_offset, r.viewport_width,
                                          r.viewport_height)
    /\ screen # last.before

\* C2: plot_model_in_viewport leaves the camera as it found it: position, yaw and pitch
\* are back to their values before the call, and roll, viewport_distance and
\* viewport_fov are never modified.
C2_ViewportRestoresCamera ==
    last.op = "plot_model_in_viewport" => camera = last.camera_before

\* a call whose pose differs from the camera's in position, yaw and pitch, and which drew
C2_Witness ==
    /\ last.op = "plot_model_in_viewport"
    /\ last.pose.camera_pos # last.camera_before.coordinates
    /\ last.pose.yaw # last.camera_before.yaw
    /\ last.pose.pitch # last.camera_before.pitch
    /\ last.camera_before.roll # 0
    /\ screen # last.before
    /\ camera = last.camera_before

\* C3: a segment whose two endpoints both have camera-space z < viewport_distance writes
\* no sample.  edge_color leaves the framebuffer unchanged (for the unrotated camera at
\* the origin camera space is world space); plot_model_in_viewport leaves it as the
\* model without those segments would.
C3_SegmentsBehindNearPlaneWriteNothing ==
    /\ (/\ last.op = "edge_color"
        /\ camera.coordinates = Point3(0, 0, 0)
        /\ camera.yaw = 0 /\ camera.pitch = 0 /\ camera.roll = 0
        /\ last.start.z < camera.viewport_distance
        /\ last.end.z < camera.viewport_distance)
       => screen = last.before
    /\ (/\ last.op = "edge_color"
        /\ z_behind(camera, world_to_camera(camera, last.start))
        /\ z_behind(camera, world_to_camera(camera, last.end)))
       => screen = last.before
    /\ last.op = "plot_model_in_viewport" =>
        LET cam == posed_camera
            m == last.model
            r == last.region
            behind(e) ==
                /\ z_behind(cam, world_to_camera(cam, model_to_world(m, e.start)))
                /\ z_behind(cam, world_to_camera(cam, model_to_world(m, e.end)))
            kept == SelectSeq(m.colored_edges, LAMBDA e : ~behind(e))
        IN screen = viewport_edges(last.before, cam, [m EXCEPT !.colored_edges = kept], 1,
                                   r.viewport_x_offset, r.viewport_width,
                                   r.viewport_height)

\* an edge from straight behind the unrotated camera to a point level with it
C3_Witness ==
    /\ last.op = "edge_color"
    /\ camera = InitCamera
    /\ last.start = Point3(0, 0, -1)
    /\ last.end.z = 0
    /\ last.end.x # 0
    /\ screen = last.before
    /\ \E y \in 0..(last.before.height - 1), x \in 0..(last.before.width - 1) :
          last.before.content[y][x].on

\* the subdivisions of a segment at which its visibility is sampled
Subdivisions == 8

\* the point k / Subdivisions of the way along the camera-space segment from a to b
segment_point(a, b, k) ==
    [x |-> (Subdivisions - k) * a.x * b.d + k * b.x * a.d,
     y |-> (Subdivisions - k) * a.y * b.d + k * b.y * a.d,
     z |-> (Subdivisions - k) * a.z * b.d + k * b.z * a.d,
     d |-> Subdivisions * a.d * b.d]

\* the camera-space point p, in front of the camera, projects inside the framebuffer
\* rectangle: 0 <= screen_x < width and 0 <= screen_y < height, before any rounding
projects_inside(cam, s, p) ==
    LET den == 2 * p.z * cam.tan_num
        screen_x_num == s.width * (p.x * cam.tan_den + p.z * cam.tan_num)
        screen_y_num == s.height * p.z * cam.tan_num - p.y * s.width * cam.tan_den
    IN /\ 0 <= screen_x_num /\ screen_x_num < s.width * den
       /\ 0 <= screen_y_num /\ screen_y_num < s.height * den

\* C4: whenever the frustum cull of edge_color skips a segment with both endpoints at
\* z >= viewport_distance, no point of the segment projects inside the framebuffer
\* rectangle [0, width) x [0, height).
C4_CullNeverDiscardsVisibleSegment ==
    last.op = "edge_color" =>
        LET camera_start == world_to_camera(camera, last.start)
            camera_end == world_to_camera(camera, last.end)
        IN (/\ ~z_behind(camera, camera_start)
            /\ ~z_behind(camera, camera_end)
            /\ frustum_culled(camera, last.before, camera_start, camera_end))
           => \A k \in 0..Subdivisions :
                 ~projects_inside(camera, last.before,
                                  segment_point(camera_start, camera_end, k))

\* C5: the frustum cull of edge_color never discards a segment one of whose endpoints,
\* projected with camera_to_screen, lands inside the framebuffer: the segment is not
\* culled and the sample the endpoint lands on is on after the call.
C5_CullKeepsSegmentWithEndpointOnScreen ==
    last.op = "edge_color" =>
        LET b == last.before
            camera_start == world_to_camera(camera, last.start)
            camera_end == world_to_camera(camera, last.end)
            lands(p) == in_bounds(b, camera_to_screen(camera, b, p))
        IN (/\ ~z_behind(camera, camera_start)
            /\ ~z_behind(camera, camera_end)
            /\ lands(camera_start) \/ lands(camera_end))
           => /\ ~frustum_culled(camera, b, camera_start, camera_end)
              /\ lands(camera_start)
                    => cell_at(screen, camera_to_screen(camera, b, camera_start)).on
              /\ lands(camera_end)
                    => cell_at(screen, camera_to_screen(camera, b, camera_end)).on

\* a segment to the left of the view axis whose end lands on the framebuffer and whose
\* start lies outside the widened frustum, drawn on samples that were off
C5_Witness ==
    /\ last.op = "edge_color"
    /\ LET b == last.before
           camera_start == world_to_camera(camera, last.start)
           camera_end == world_to_camera(camera, last.end)
       IN /\ ~z_behind(camera, camera_start)
          /\ ~z_behind(camera, camera_end)
          /\ camera_start.x < 0
          /\ camera_end.x < 0
          /\ ~is_in_frustum(camera, b, camera_start)
          /\ in_bounds(b, camera_to_screen(camera, b, camera_end))
          /\ ~cell_at(b, camera_to_screen(camera, b, camera_end)).on
          /\ cell_at(screen, camera_to_screen(camera, b, camera_end)).on

\* C6: for a segment with exactly one endpoint behind the near plane, the synthesized
\* clip point has z equal to viewport_distance, lambda has a non-zero denominator and
\* lies in [0, 1], every channel of the synthesized colour lies between the channel
\* values of the two endpoints, and the unclipped endpoint keeps its own colour,
\* whichever endpoint was the clipped one; the line drawn runs from the clip point to
\* the unclipped endpoint with those colours.
C6_ClipPointAndColour ==
    last.op = "edge_color" =>
        LET b == last.before
            camera_start == world_to_camera(camera, last.start)
            camera_end == world_to_camera(camera, last.end)
            clip_start == z_behind(camera, camera_start)
            clip_end == z_behind(camera, camera_end)
            clipped_color == IF clip_start THEN last.start_color ELSE last.end_color
            own_color == IF clip_start THEN last.end_color ELSE last.start_color
            seg == clip_segment(camera, camera_start, camera_end,
                                last.start_color, last.end_color, clip_start)
            between(c, lo, hi) == min(lo, hi) <= c /\ c <= max(lo, hi)
        IN (clip_start # clip_end) =>
              /\ seg.lambda_den # 0
              /\ 0 <= seg.lambda_num * seg.lambda_den
              /\ abs(seg.lambda_num) <= abs(seg.lambda_den)
              /\ seg.new_clipped.z = camera.viewport_distance * seg.new_clipped.d
              /\ seg.unclipped = (IF clip_start THEN camera_end ELSE camera_start)
              /\ seg.unclipped_color = own_color
              /\ between(seg.clip_color.r, clipped_color.r, own_color.r)
              /\ between(seg.clip_color.g, clipped_color.g, own_color.g)
              /\ between(seg.clip_color.b, clipped_color.b, own_color.b)
              /\ screen = line_color(b, camera_to_screen(camera, b, seg.new_clipped),
                                     camera_to_screen(camera, b, seg.unclipped),
                                     seg.clip_color, own_color)

\* C19: with viewport_distance 1, tan(fov / 2) = 2/5 and a framebuffer of 100 x 100,
\* camera_to_screen maps the camera-space point (0,0,5) to (50,50) and (1,0,5) to
\* (75,50): two distinct samples with equal y, the second x the greater; and an
\* evaluation repeated on the same point gives the same sample
C19_ProjectionOfAxisAndUnitOffset ==
    (/\ last.op = "camera_to_screen"
     /\ screen.width = 100 /\ screen.height = 100
     /\ camera.viewport_distance = 1
     /\ 5 * camera.tan_num = 2 * camera.tan_den)
    => /\ last.point = [x |-> 0, y |-> 0, z |-> 5, d |-> 1] => last.result = Point(50, 50)
       /\ last.point = [x |-> 1, y |-> 0, z |-> 5, d |-> 1] => last.result = Point(75, 50)
       /\ last.again => last.previous = <<last.result>>
       /\ (last.point.y = 0 /\ last.point.z = 5 /\ last.point.x = 1 /\ last.again)
              => LET axis == camera_to_screen(camera, screen, [last.point EXCEPT !.x = 0])
                 IN /\ axis # last.result
                    /\ axis.y = last.result.y
                    /\ last.result.x > axis.x

\* (1,0,5) has been projected twice in a row over the 100 x 100 framebuffer
C19_Witness ==
    /\ last.op = "camera_to_screen"
    /\ screen.width = 100 /\ screen.height = 100
    /\ last.point = [x |-> 1, y |-> 0, z |-> 5, d |-> 1]
    /\ last.again
    /\ last.previous = <<Point(75, 50)>>

\* the points handed to the perspective divide for a sample or a segment that is drawn
divided_points(seg) ==
    IF seg.draw THEN {seg.divided[k] : k \in 1..Len(seg.divided)} ELSE {}

\* the camera-space point p (x/d, y/d, z/d) has z >= viewport_distance > 0
divisible(cam, p) ==
    /\ p.d > 0
    /\ p.z >= cam.viewport_distance * p.d
    /\ p.z > 0

\* the segments Camera::plot_model_in_viewport decides for the edges of a model
viewport_segments(cam, model, region) ==
    {viewport_segment(cam, model, model.colored_edges[k], region.viewport_x_offset,
                      region.viewport_width, region.viewport_height) :
        k \in 1..Len(model.colored_edges)}

\* C25: the perspective divide is only evaluated on camera-space points with
\* z >= viewport_distance: in Camera::write, Camera::edge_color and
\* Camera::plot_model_in_viewport every point handed to camera_to_screen or
\* camera_to_viewport_screen is an endpoint that passed the near-plane test or the
\* synthesized clip point, whose z is viewport_distance; no divisor is zero or negative.
C25_DivideOnlyInFrontOfNearPlane ==
    LET divided ==
            CASE last.op = "write" ->
                     divided_points(write_sample(last.before, camera, last.point))
              [] last.op = "edge_color" ->
                     divided_points(edge_segment(last.before, camera, last.start, last.end,
                                                 last.start_color, last.end_color))
              [] last.op = "plot_model_in_viewport" ->
                     UNION {divided_points(seg) :
                               seg \in viewport_segments(posed_camera, last.model,
                                                         last.region)}
              [] OTHER -> {}
    IN \A p \in divided : divisible(camera, p)

\* an edge from a point level with the camera (z = 0) to a point in front of the near
\* plane is drawn from the synthesized clip point, and the framebuffer has changed
C25_Witness ==
    /\ last.op = "edge_color"
    /\ world_to_camera(camera, last.start).z = 0
    /\ ~behind_near_plane(camera, world_to_camera(camera, last.end))
    /\ LET seg == edge_segment(last.before, camera, last.start, last.end,
                               last.start_color, last.end_color)
       IN /\ seg.draw
          /\ seg.why = "clipped"
          /\ seg.divided[1].z = camera.viewport_distance * seg.divided[1].d
    /\ screen # last.before

\* floor(W / N), found without dividing
floor_div(W, N) == CHOOSE k \in 0..W : k * N <= W /\ W < (k + 1) * N

\* C26: in a multi-model frame with N >= 2 models on a framebuffer of width W the
\* regions handed to the compositor are [i * floor(W/N), (i + 1) * floor(W/N)) for
\* i = 0..N-1: of equal width, pairwise disjoint and inside [0, W); every cell the frame
\* changes lies in one of them, so none lies in the leftover columns x >= N * floor(W/N).
C26_RegionsPartitionTheFrame ==
    last.op = "multi_viewport" =>
        LET W == last.before.width
            N == Len(last.models)
            w == floor_div(W, N)
            columns(i) == {x \in 0..(W - 1) :
                              /\ last.regions[i].viewport_x_offset <= x
                              /\ x < last.regions[i].viewport_x_offset
                                         + last.regions[i].viewport_width}
        IN /\ Len(last.regions) = N
           /\ \A i \in 1..N :
                 /\ last.regions[i].viewport_x_offset = (i - 1) * w
                 /\ last.regions[i].viewport_width = w
                 /\ last.regions[i].viewport_x_offset + last.regions[i].viewport_width <= W
                 /\ columns(i) = {x \in 0..(W - 1) : (i - 1) * w <= x /\ x < i * w}
           /\ \A i \in 1..N, j \in 1..N : i # j => columns(i) \cap columns(j) = {}
           /\ \A y \in 0..(last.before.height - 1), x \in 0..(W - 1) :
                 screen.content[y][x] # last.before.content[y][x]
                 => /\ x < N * w
                    /\ \E i \in 1..N : x \in columns(i)

\* three models on a framebuffer 4 samples wide: the regions are one column each and
\* column 3 is left over; the model's edge, drawn into the last region, passes through
\* a cell of the leftover column, and the frame has changed the framebuffer
C26_Witness ==
    /\ last.op = "multi_viewport"
    /\ Len(last.models) = 3
    /\ last.before.width = 4
    /\ screen # last.before
    /\ Len(last.models[3].colored_edges) = 1
    /\ LET r == last.regions[3]
           posed == [last.camera_before EXCEPT !.coordinates = last.pose.camera_pos,
                                               !.yaw = last.pose.yaw,
                                               !.pitch = last.pose.pitch]
           seg == viewport_segment(posed, last.models[3], last.models[3].colored_edges[1],
                                   r.viewport_x_offset, r.viewport_width, r.viewport_height)
       IN /\ seg.draw
          /\ \E p \in bresenham_path(seg.start, seg.end) :
                in_bounds(last.before, p) /\ p.x = 3

(***************************************************************************)
(* Properties of the viewer, checked under SpecMain.                       *)
(***************************************************************************)
\* C16: at every point of a run, after Screen::new and after every fit_to_terminal of
\* the dot-matrix shape, the framebuffer's width is a whole multiple of the glyph block
\* width, its height a whole multiple of the glyph block height, and its cell grid has
\* exactly height rows of exactly width cells
C16_FramebufferIsWholeBlocks ==
    /\ screen.width % Pixel_WIDTH("BrailePixel") = 0
    /\ screen.height % Pixel_HEIGHT("BrailePixel") = 0
    /\ DOMAIN screen.content = 0..(screen.height - 1)
    /\ \A y \in DOMAIN screen.content : DOMAIN screen.content[y] = 0..(screen.width - 1)

\* the second frame has fitted a framebuffer of more than one block to the terminal
C16_Witness ==
    /\ at("clear")
    /\ main.frame = 2
    /\ screen.width > Pixel_WIDTH("BrailePixel")
    /\ screen.height > 0

\* C17: once the terminal is in raw mode, every way the process ends (q, Ctrl+C, a panic
\* of a failing terminal call) runs cleanup_terminal first: at the exit raw mode is off,
\* the cursor shown and the alternate screen left
C17_EveryExitRestoresTerminal ==
    (at("exited") /\ terminal.was_raw)
    => /\ ~terminal.raw_mode
       /\ ~terminal.cursor_hidden
       /\ ~terminal.alternate_screen
       /\ main.exit_code \in {0, 101}

\* a terminal call has failed inside the frame loop, after a frame was written
C17_Witness ==
    /\ at("exited")
    /\ terminal.was_raw
    /\ main.exit_code = 101
    /\ main.frame = 2
    /\ terminal.frames = 1
    /\ ~terminal.raw_mode

\* the phases of a whole frame that draws n models, after the events it handled
frame_phases(n) ==
    <<"drained", "pose", "fit", "clear">> \o [i \in 1..n |-> "draw"] \o <<"write", "sleep">>

is_prefix(a, b) == Len(a) <= Len(b) /\ SubSeq(b, 1, Len(a)) = a

\* the number of leading "event" entries of a frame's log
RECURSIVE events_handled(_, _)
events_handled(trace, i) ==
    IF i <= Len(trace) /\ trace[i] = "event" THEN events_handled(trace, i + 1) ELSE i - 1

\* C18: every iteration of the frame loop goes through its phases in the fixed order:
\* all pending input drained, pose update, fit to the terminal and clear, one draw per
\* model, one write of the complete frame, sleep.  No draw comes before the clear, no
\* write before the last draw, and a quit handled while draining ends the process with
\* nothing of that frame written.
C18_FramePhasesInOrder ==
    main.frame >= 1 =>
        LET k == events_handled(main.trace, 1)
            rest == SubSeq(main.trace, k + 1, Len(main.trace))
            phases == frame_phases(main.loaded.num_models)
            ended == rest # <<>> /\ rest[Len(rest)] \in {"quit", "panic"}
            done == IF ended THEN SubSeq(rest, 1, Len(rest) - 1) ELSE rest
            written == Len(SelectSeq(main.trace, LAMBDA phase : phase = "write"))
        IN /\ is_prefix(done, phases)
           /\ (ended /\ rest[Len(rest)] = "quit") => done = <<>>
           /\ Len(done) >= 1 => main.unread = 0
           /\ Len(main.handled) = k + (IF ended /\ rest[Len(rest)] = "quit" THEN 1 ELSE 0)
           /\ Len(main.writes) = written
           /\ terminal.frames = main.frame - 1 + written
           /\ written = 1 =>
                  \E size \in TermSizes :
                      main.writes[1] =
                          render_with_status(
                              screen, "BrailePixel",
                              final_msg(size[1], status_texts(main.loaded.inputs, main.view)))

\* the second frame of two models has handled an event and run to the end of its sleep
C18_Witness ==
    /\ at("loop")
    /\ main.frame = 2
    /\ main.trace = <<"event">> \o frame_phases(2)
    /\ terminal.frames = 2

\* TRUE when the frame under way has handled one event, a drag with Shift held whose
\* displacement from the position the frame started with is not zero
shift_drag_frame ==
    /\ Len(main.handled) = 1
    /\ main.handled[1].type = "Mouse"
    /\ main.handled[1].kind = "Drag"
    /\ main.handled[1].modifiers = "SHIFT"
    /\ Point(main.handled[1].column, main.handled[1].row)
           # main.frame_view.start_mouse_position

\* C20: in a frame that handles a Shift+drag with non-zero displacement, the camera
\* position each model is rendered from differs from the position the same frame would
\* have used without the drag, with one model and with several side by side
C20_ShiftDragMovesEveryCamera ==
    (at("render") /\ shift_drag_frame)
    => LET idle == update_pose(settle(main.frame_view), main.loaded, camera)
           undragged == camera_positions(idle, main.loaded, screen.width, screen.height)
       IN \A i \in 1..main.loaded.num_models : main.positions[i] # undragged[i]

\* TRUE of a step that handles one event without quitting
handles_event == at("poll") /\ main'.pc = "poll" /\ Len(main'.handled) = Len(main.handled) + 1

\* C21: the auto-rotate flag starts on, and an event changes it only as documented: the
\* key r flips it, a drag without Shift turns it off, the key 0 turns it on and puts
\* yaw, pitch, zoom distance and pan centre back to their initial values, and any other
\* event (Shift+drag, mouse down, scroll, the key c) leaves it as it is; nothing but
\* an event changes it
C21_AutoRotateChangesAsDocumented ==
    /\ main.view.auto_rotate
    /\ [][IF handles_event
          THEN LET event == main'.handled[Len(main'.handled)]
                   was == main.view.auto_rotate
                   is == main'.view.auto_rotate
               IN CASE event.type = "Key" /\ event.code = "r" -> is = ~was
                    [] event.type = "Key" /\ event.code = "0" ->
                           /\ is
                           /\ main'.view.view_yaw = initial_yaw
                           /\ main'.view.view_pitch = initial_pitch
                           /\ main'.view.distance_to_model = initial_distance(main.loaded)
                           /\ main'.view.pan_center = initial_pan_center(main.loaded)
                    [] event.type = "Mouse" /\ event.kind = "Drag"
                           /\ event.modifiers # "SHIFT" -> ~is
                    [] OTHER -> is = was
          ELSE main'.view.auto_rotate = main.view.auto_rotate]_vars

\* the second frame has handled the key 0 with auto-rotation off, the view turned and
\* zoomed away from its initial pose, and the view is the initial one again
C21_Witness ==
    /\ at("poll")
    /\ main.frame = 2
    /\ main.handled = <<KeyEvent("0", "NONE")>>
    /\ ~main.frame_view.auto_rotate
    /\ main.frame_view.view_yaw # initial_yaw
    /\ main.view.auto_rotate
    /\ main.view.view_yaw = initial_yaw

\* the samples a call of Screen::line_color or Screen::line_color_clipped writes on
\* the framebuffer s: the points of the Bresenham path inside s and inside the clip
call_samples(s, call) ==
    {p \in bresenham_path(call.seg.start, call.seg.end) :
        /\ in_bounds(s, p)
        /\ call.clip = <<>> \/ in_clip(p.x, p.y, call.clip[1])}

\* the colour the call gives its sample p: that of the step at which the path reaches p
call_color(call, p) ==
    LET start == call.seg.start
        end == call.seg.end
        dx == abs(end.x - start.x)
        dy == abs(end.y - start.y)
        k == CHOOSE k \in 0..max(dx, dy) : bresenham_point(start, end, k) = p
    IN lerp_color(call.seg.start_color, call.seg.end_color, k, max(dx + dy, 1))

\* C24: frames are isolated: when the frame is handed to the glyph packer, a cell is on
\* exactly if some line call of this frame wrote it, its colour is then the colour the
\* last such call gave it, and every other cell is off and white, whatever the frame
\* before left in the framebuffer and whether or not the framebuffer was resized.
C24_FramesAreIsolated ==
    at("render") =>
        \A y \in 0..(screen.height - 1), x \in 0..(screen.width - 1) :
            LET p == Point(x, y)
                writers == {k \in 1..Len(main.drawn) : p \in call_samples(screen, main.drawn[k])}
                latest == CHOOSE k \in writers : \A j \in writers : j <= k
            IN cell_at(screen, p) =
                   IF writers = {}
                   THEN [on |-> FALSE, color |-> white]
                   ELSE [on |-> TRUE, color |-> call_color(main.drawn[latest], p)]

\* the second frame of two models is about to be written on a framebuffer of the size
\* the first frame left: the first cell, which the first frame left on, is off; the first
\* model has drawn in its column, and a cell of the second model's column was written
\* twice and has the colour of the second call
C24_Witness ==
    /\ at("render")
    /\ main.frame = 2
    /\ main.found = [width |-> screen.width, height |-> screen.height, first_on |-> TRUE]
    /\ ~cell_at(screen, Point(0, 0)).on
    /\ Len(main.drawn) = 3
    /\ call_samples(screen, main.drawn[1]) # {}
    /\ \E p \in call_samples(screen, main.drawn[2]) \cap call_samples(screen, main.drawn[3]) :
          /\ call_color(main.drawn[2], p) # call_color(main.drawn[3], p)
          /\ cell_at(screen, p).color = call_color(main.drawn[3], p)

\* TRUE of the step that makes the idle reset and the pose update of a frame
updates_pose == at("pose") /\ main'.pc = "fit_to_terminal"

\* a mouse Down or Drag event
is_motion(event) == event.type = "Mouse" /\ event.kind \in {"Down", "Drag"}

\* the frame under way has drained no mouse Down or Drag event
idle_frame == \A k \in 1..Len(main.handled) : ~is_motion(main.handled[k])

\* C27: in a frame that drained no mouse Down or Drag event, whatever keys and scrolls
\* it drained, the mouse speed is (0, 0) and pan mode is off after the idle reset, and
\* the pose update leaves yaw, pitch and pan centre as the frame's events left them when
\* auto-rotate is off, and adds exactly AUTO_ROTATE_SPEED to the yaw, changing nothing
\* else, when auto-rotate is on.
C27_IdleFrameOnlyAutoRotates ==
    [][(updates_pose /\ idle_frame) =>
          /\ main'.view.mouse_speed = <<rat(0, 1), rat(0, 1)>>
          /\ ~main'.view.pan_mode
          /\ main'.view.view_yaw = IF main.view.auto_rotate
                                   THEN rat_add(main.view.view_yaw, AUTO_ROTATE_SPEED)
                                   ELSE main.view.view_yaw
          /\ main'.view.view_pitch = main.view.view_pitch
          /\ main'.view.pan_center = main.view.pan_center
          /\ main'.view.distance_to_model = main.view.distance_to_model
          /\ main'.view.auto_rotate = main.view.auto_rotate]_vars

\* the second frame began with the mouse moving in pan mode (a Shift+drag of the first
\* frame) and with auto-rotate on, drained a scroll and nothing else, and after its pose
\* update the mouse is still, pan mode is off, the yaw is one increment on and the pan
\* centre is where it was
C27_Witness ==
    /\ main.pc = "fit_to_terminal"
    /\ main.frame = 2
    /\ main.frame_view.pan_mode
    /\ main.frame_view.auto_rotate
    /\ main.frame_view.mouse_speed # <<rat(0, 1), rat(0, 1)>>
    /\ main.handled = <<MouseEvent("ScrollUp", 0, 0, "NONE")>>
    /\ main.view.mouse_speed = <<rat(0, 1), rat(0, 1)>>
    /\ ~main.view.pan_mode
    /\ main.view.view_yaw = rat_add(main.frame_view.view_yaw, AUTO_ROTATE_SPEED)
    /\ main.view.pan_center = main.frame_view.pan_center

(***************************************************************************)
(* Properties of the colour schemes, checked under SpecColor.              *)
(***************************************************************************)
\* C22: the key c cycles through all 13 schemes: from any scheme, 13 presses come back
\* to it and the 12 schemes in between are the 12 other schemes, each once; the name of
\* every scheme is accepted by from_str and gives the same scheme
C22_ColourSchemesCycleAndRoundTrip ==
    LET between == SubSeq(last.visited, 1, min(Len(last.visited), 12))
    IN /\ Cardinality(ColorSchemes) = 13
       /\ last.view.color_scheme \in ColorSchemes
       /\ (last.view.color_scheme = last.start) = (last.presses % 13 = 0)
       /\ \A i \in DOMAIN between :
              /\ between[i] # last.start
              /\ \A j \in DOMAIN between : between[i] = between[j] => i = j
       /\ Len(between) = 12 => {between[i] : i \in 1..12} = ColorSchemes \ {last.start}
       /\ last.op = "from_str" => last.parsed = <<last.view.color_scheme>>

\* 13 presses of c have come back to the scheme the viewer started with, and its name
\* has been parsed
C22_Witness ==
    /\ last.op = "from_str"
    /\ last.presses = 13
    /\ last.view.color_scheme = last.start
    /\ last.parsed = <<last.start>>

(***************************************************************************)
(* Properties of the line loop, checked under SpecLine.                    *)
(***************************************************************************)
\* a call of either line routine is under way or over
in_line_call == last.op \in {"line_color", "line_color_clipped"}

\* the larger of the two deltas the call computed before its loop
longer_delta == max(last.ln.delta_x, wrapping_neg(last.ln.delta_y))

\* C23: the loop of line_color and of line_color_clipped terminates for every pair of
\* integer start and end points: no call stops short of its end point, the loop takes
\* at most max(|dx|, |dy|) + 1 samples, and when it exits the last sample is the end
\* point.
C23_LineLoopReachesEnd ==
    in_line_call =>
        /\ last.status # "panicked"
        /\ Len(last.path) <= longer_delta + 1
        /\ last.status = "returned" => last.path[Len(last.path)] = last.end

\* the sign of n
sign(n) == IF n > 0 THEN 1 ELSE IF n < 0 THEN -1 ELSE 0

\* the step from sample p to sample q moves at most one in x and one in y, never away
\* from `end`, and moves at all
steps_toward(p, q, end) ==
    /\ q.x - p.x \in {0, sign(end.x - p.x)}
    /\ q.y - p.y \in {0, sign(end.y - p.y)}
    /\ q # p

\* p lies in the bounding box of start and end
in_bounding_box(p, start, end) ==
    /\ min(start.x, end.x) <= p.x /\ p.x <= max(start.x, end.x)
    /\ min(start.y, end.y) <= p.y /\ p.y <= max(start.y, end.y)

\* C28: the samples of a finished line are a connected Bresenham path: the first is
\* start, the last is end, there are exactly max(|dx|, |dy|) + 1 of them, each next one
\* differs by at most one in x and one in y in the direction of end, and all of them lie
\* in the bounding box of start and end.
C28_PathIsConnectedBresenham ==
    (in_line_call /\ last.status = "returned") =>
        LET path == last.path
            n == max(abs(last.end.x - last.start.x), abs(last.end.y - last.start.y))
        IN /\ Len(path) = n + 1
           /\ path[1] = last.start
           /\ path[Len(path)] = last.end
           /\ \A k \in 1..(Len(path) - 1) : steps_toward(path[k], path[k + 1], last.end)
           /\ \A k \in 1..Len(path) : in_bounding_box(path[k], last.start, last.end)
           /\ {path[k] : k \in 1..Len(path)} = bresenham_path(last.start, last.end)

\* a finished line that starts outside the framebuffer, ends inside it and has both a
\* diagonal step and a step along x only
C28_Witness ==
    /\ in_line_call
    /\ last.status = "returned"
    /\ ~in_bounds(screen, last.start)
    /\ in_bounds(screen, last.end)
    /\ \E k \in 1..(Len(last.path) - 1) :
          /\ last.path[k + 1].x # last.path[k].x
          /\ last.path[k + 1].y # last.path[k].y
    /\ \E k \in 1..(Len(last.path) - 1) : last.path[k + 1].y = last.path[k].y

(***************************************************************************)
(* Properties of the fit, checked under SpecFit.                           *)
(***************************************************************************)
\* C29: for every terminal size that fits 16 bits, 0 rows and very wide or tall
\* terminals included, fit_to_terminal completes without underflow or overflow and
\* leaves the framebuffer with exactly columns * W by (rows - 1) * H samples, height 0
\* for 0 rows.
C29_FitToTerminalIsTotal ==
    last.op = "fit_to_terminal" =>
        /\ last.status = "returned"
        /\ screen.width = last.terminal_width * Pixel_WIDTH(last.T)
        /\ screen.height = saturating_sub(last.terminal_height, 1) * Pixel_HEIGHT(last.T)

(***************************************************************************)
(* Properties of the search, checked under SpecSearch.                     *)
(***************************************************************************)
\* the quoted value of the "identifier" key at offset key_pos of text, and the offset
\* after it: the value lies between the first two quotes after the first colon after
\* the key, if there is such a thing
value_of_key(text, key_pos) ==
    LET after_key == key_pos + Len(identifier_key)
        colon == find(slice_from(text, after_key), <<":">>)
    IN  IF colon = None THEN None
        ELSE
        LET after_colon == after_key + colon[1] + 1
            opening == find(slice_from(text, after_colon), <<QUOTE>>)
        IN  IF opening = None THEN None
            ELSE
            LET value_start == after_colon + opening[1] + 1
                closing == find(slice_from(text, value_start), <<QUOTE>>)
            IN  IF closing = None THEN None
                ELSE Some([value |-> SubSeq(text, value_start + 1, value_start + closing[1]),
                           after |-> value_start + closing[1] + 1])

RECURSIVE identifiers_from(_, _)
\* the values of 4 alphanumeric characters of the "identifier" keys of text from offset
\* `from` on, in order of appearance; the text after a key up to the end of its value
\* belongs to that key, and no key that follows a key without a value has one
identifiers_from(text, from) ==
    LET key == find(slice_from(text, from), identifier_key)
    IN  IF key = None THEN <<>>
        ELSE
        LET found == value_of_key(text, from + key[1])
        IN  IF found = None THEN <<>>
            ELSE (IF is_pdb_id(found[1].value) THEN <<found[1].value>> ELSE <<>>)
                     \o identifiers_from(text, found[1].after)

\* the ids of a list of results
pdb_ids(results) == [i \in 1..Len(results) |-> results[i].pdb_id]

\* C30: parse_search_results scans the whole response: its scan position never moves
\* past the end of the text, it does not panic, and what it returns is, in order of
\* appearance, one result for every "identifier" key whose quoted value is exactly 4
\* alphanumeric characters.
C30_ScanFindsEveryIdentifier ==
    last.op = "parse_search_results" =>
        /\ last.pos <= Len(last.json)
        /\ last.status # "panicked"
        /\ last.status = "returned" =>
               pdb_ids(last.results) = identifiers_from(last.json, 0)

(***************************************************************************)
(* The glyph packer: reading a payload back.                               *)
(***************************************************************************)
\* TRUE when the bytes of prefix stand at position i of seq
starts_with(seq, i, prefix) ==
    /\ i + Len(prefix) - 1 <= Len(seq)
    /\ SubSeq(seq, i, i + Len(prefix) - 1) = prefix

\* the decimal number whose digits stand at position i of seq, and the position after it
RECURSIVE read_number(_, _, _)
read_number(seq, i, value) ==
    IF i <= Len(seq) /\ seq[i] >= 48 /\ seq[i] <= 57
    THEN read_number(seq, i + 1, 10 * value + (seq[i] - 48))
    ELSE [value |-> value, next |-> i]

\* the colour-change escape at position i: its colour and the position after its `m`
read_color_after(seq, r, g, b) ==
    [kind |-> "color", color |-> Rgb(r.value, g.value, b.value), next |-> b.next + 1]

read_color_blue(seq, r, g) == read_color_after(seq, r, g, read_number(seq, g.next + 1, 0))

read_color_green(seq, r) == read_color_blue(seq, r, read_number(seq, r.next + 1, 0))

read_color(seq, i) == read_color_green(seq, read_number(seq, i + Len(set_foreground), 0))

\* the char whose three-byte UTF-8 encoding stands at position i
read_char3(seq, i) ==
    [kind |-> "glyph",
     char |-> (seq[i] - 224) * 4096 + (seq[i + 1] - 128) * 64 + (seq[i + 2] - 128),
     next |-> i + 3]

\* what stands at position i of the payload
read_token(seq, i) ==
    IF starts_with(seq, i, set_foreground) THEN read_color(seq, i)
    ELSE IF starts_with(seq, i, clear_line_newline)
    THEN [kind |-> "newline", next |-> i + Len(clear_line_newline)]
    ELSE IF starts_with(seq, i, reset_color)
    THEN [kind |-> "status", next |-> Len(seq) + 1]
    ELSE IF seq[i] = 32 THEN [kind |-> "glyph", char |-> 32, next |-> i + 1]
    ELSE IF seq[i] >= 224 /\ seq[i] < 240 /\ i + 2 <= Len(seq) THEN read_char3(seq, i)
    ELSE [kind |-> "other", next |-> i + 1]

RECURSIVE read_tokens(_, _)
read_tokens(seq, i) ==
    IF i > Len(seq) THEN <<>>
    ELSE LET token == read_token(seq, i)
         IN <<token>> \o read_tokens(seq, token.next)

\* the colour-change escapes, glyphs and line ends of a payload, in order, up to the
\* reset that starts the status bar
payload_tokens(payload) == read_tokens(payload, Len(home_and_reset) + 1)

\* the positions in tokens of the glyphs, in order
RECURSIVE glyph_positions(_, _)
glyph_positions(tokens, i) ==
    IF i > Len(tokens) THEN <<>>
    ELSE IF tokens[i].kind = "glyph" THEN <<i>> \o glyph_positions(tokens, i + 1)
    ELSE glyph_positions(tokens, i + 1)

\* the colours of the colour-change escapes, in order
RECURSIVE escape_colors(_, _)
escape_colors(tokens, i) ==
    IF i > Len(tokens) THEN <<>>
    ELSE IF tokens[i].kind = "color"
    THEN <<tokens[i].color>> \o escape_colors(tokens, i + 1)
    ELSE escape_colors(tokens, i + 1)

\* the colour in force at position i of tokens: that of the last escape before it
RECURSIVE color_in_force(_, _)
color_in_force(tokens, i) ==
    IF i <= 1 THEN None
    ELSE IF tokens[i - 1].kind = "color" THEN Some(tokens[i - 1].color)
    ELSE color_in_force(tokens, i - 1)

\* the glyph blocks of a framebuffer for the shape T, row by row: the number of
\* columns and of blocks
block_columns(s, T) == div_ceil(s.width, Pixel_WIDTH(T))

block_count(s, T) == block_columns(s, T) * div_ceil(s.height, Pixel_HEIGHT(T))

\* the samples of block k (1, 2, ... row by row), and those that are on
block_cells(s, T, k) ==
    {p \in (0..(s.width - 1)) \X (0..(s.height - 1)) :
        /\ p[1] \div Pixel_WIDTH(T) = (k - 1) % block_columns(s, T)
        /\ p[2] \div Pixel_HEIGHT(T) = (k - 1) \div block_columns(s, T)}

block_on(s, T, k) == {p \in block_cells(s, T, k) : s.content[p[2]][p[1]].on}

\* the pattern of block k
block_pattern(s, T, k) ==
    [y \in 0..(Pixel_HEIGHT(T) - 1) |-> [x \in 0..(Pixel_WIDTH(T) - 1) |->
        \E p \in block_on(s, T, k) :
            p[1] % Pixel_WIDTH(T) = x /\ p[2] % Pixel_HEIGHT(T) = y]]

\* the pattern with every sample on
Pixel_full(T) == [y \in 0..(Pixel_HEIGHT(T) - 1) |-> [x \in 0..(Pixel_WIDTH(T) - 1) |-> TRUE]]

\* the blank and the fully-filled glyph of a shape: the space and U+2588 FULL BLOCK,
\* U+2800 BRAILLE PATTERN BLANK and U+28FF BRAILLE PATTERN DOTS-12345678
blank_glyph(T) == IF T = "BlockPixel" THEN 32 ELSE 10240

full_glyph(T) == IF T = "BlockPixel" THEN 9608 ELSE 10495

\* the glyphs a shape can show: the space and the quadrant and half blocks
\* U+2580..U+259F, the braille patterns U+2800..U+28FF
shape_glyphs(T) ==
    IF T = "BlockPixel" THEN {32} \cup (9600..9631) ELSE 10240..10495

\* C11: glyph packing is total and injective for both shapes: every pattern maps to a
\* glyph of the shape, no two patterns map to the same glyph, the all-off pattern maps
\* to the blank glyph and the all-on pattern to the fully-filled glyph; and the glyphs
\* of a payload are those of the patterns of the framebuffer's blocks, in order
C11_GlyphPackingTotalInjective ==
    /\ \A T \in PixelTypes :
        /\ \A pixel \in Pixels(T) : to_char(T, pixel) \in shape_glyphs(T)
        /\ Cardinality({to_char(T, pixel) : pixel \in Pixels(T)}) = Cardinality(Pixels(T))
        /\ to_char(T, Pixel_new(T)) = blank_glyph(T)
        /\ to_char(T, Pixel_full(T)) = full_glyph(T)
    /\ last.op = "render_with_status" =>
        LET tokens == payload_tokens(last.payload)
            glyphs == glyph_positions(tokens, 1)
        IN /\ Len(glyphs) = block_count(screen, last.T)
           /\ \A k \in 1..Len(glyphs) :
                tokens[glyphs[k]].char = to_char(last.T, block_pattern(screen, last.T, k))

\* a dot-matrix pixel with every sample on has been packed into U+28FF
C11_Witness ==
    /\ last.op = "render_with_status"
    /\ last.T = "BrailePixel"
    /\ screen = pixel_screen(Pixel_full("BrailePixel"))
    /\ \E i \in 1..Len(payload_tokens(last.payload)) :
        /\ payload_tokens(last.payload)[i].kind = "glyph"
        /\ payload_tokens(last.payload)[i].char = 10495

\* C12: a glyph block whose samples are all off never causes a colour-change escape,
\* for either shape: no escape stands right before the glyph of such a block, and the
\* payload of a framebuffer with no sample on holds no colour-change escape at all
C12_BlankBlockEmitsNoColour ==
    last.op = "render_with_status" =>
        LET tokens == payload_tokens(last.payload)
            glyphs == glyph_positions(tokens, 1)
        IN /\ \A k \in 1..Len(glyphs) :
                block_on(screen, last.T, k) = {} =>
                    (glyphs[k] = 1 \/ tokens[glyphs[k] - 1].kind # "color")
           /\ (\A k \in 1..block_count(screen, last.T) : block_on(screen, last.T, k) = {})
                => escape_colors(tokens, 1) = <<>>

\* the blocks before block k that show a glyph other than the blank one
earlier_non_blank(s, T, k) == {j \in 1..(k - 1) : block_on(s, T, j) # {}}

\* the sum of a channel over the samples of block k that are on
block_sum(s, T, k, channel) ==
    sum_over(block_on(s, T, k),
             [p \in block_on(s, T, k) |-> s.content[p[2]][p[1]].color[channel]])

\* the colour of block k: per channel, the mean of the samples that are on, rounded down
block_color(s, T, k) ==
    [channel \in {"r", "g", "b"} |->
        block_sum(s, T, k, channel) \div Cardinality(block_on(s, T, k))]

\* the block before block k that shows a glyph other than the blank one, if any
previous_non_blank(s, T, k) ==
    CHOOSE j \in earlier_non_blank(s, T, k) : \A i \in earlier_non_blank(s, T, k) : i <= j

\* C13: a colour-change escape stands before a non-blank glyph if and only if the
\* block's colour differs from that of the non-blank block before it (the first
\* non-blank block always has one), rows making no difference; and no two successive
\* colour-change escapes carry the same colour
C13_EscapeOnlyOnColourChange ==
    last.op = "render_with_status" =>
        LET tokens == payload_tokens(last.payload)
            glyphs == glyph_positions(tokens, 1)
            escapes == escape_colors(tokens, 1)
        IN /\ \A k \in 1..Len(glyphs) :
                block_on(screen, last.T, k) # {} =>
                    ((glyphs[k] > 1 /\ tokens[glyphs[k] - 1].kind = "color")
                        <=> \/ earlier_non_blank(screen, last.T, k) = {}
                            \/ block_color(screen, last.T, k)
                                # block_color(screen, last.T,
                                              previous_non_blank(screen, last.T, k)))
           /\ \A i \in 1..(Len(escapes) - 1) : escapes[i] # escapes[i + 1]

\* C14: the colour shown for a block with a sample on is, per channel, the sum of the
\* channel over the samples that are on divided by their number, rounded down, whatever
\* the samples that are off hold; and it lies in 0..255
C14_BlockColourIsTruncatedMean ==
    last.op = "render_with_status" =>
        LET tokens == payload_tokens(last.payload)
            glyphs == glyph_positions(tokens, 1)
        IN \A k \in 1..Len(glyphs) :
            block_on(screen, last.T, k) # {} =>
                LET shown == color_in_force(tokens, glyphs[k])
                IN /\ shown # None
                   /\ \A channel \in {"r", "g", "b"} :
                        /\ shown[1][channel] \in 0..255
                        /\ shown[1][channel] * Cardinality(block_on(screen, last.T, k))
                                <= block_sum(screen, last.T, k, channel)
                        /\ (shown[1][channel] + 1) * Cardinality(block_on(screen, last.T, k))
                                > block_sum(screen, last.T, k, channel)

\* a block with two samples on, of different colours whose mean is not whole, has been
\* packed; and one with a sample on and a coloured sample off
C14_Witness ==
    /\ last.op = "render_with_status"
    /\ \E k \in 1..block_count(screen, last.T) :
        /\ Cardinality(block_on(screen, last.T, k)) = 2
        /\ block_sum(screen, last.T, k, "r") % 2 = 1
        /\ color_in_force(payload_tokens(last.payload),
                          glyph_positions(payload_tokens(last.payload), 1)[k])
                = Some(Rgb(160, 116, 60))

====
